------------------------------- MODULE MapFeed -------------------------------
(***************************************************************************)
(* The green objects of the map.  The page keeps a list of objects for     *)
(* each journey (objects of the journey's own report are left out) and     *)
(* polls what was written since its clock at the last answer; the server   *)
(* answers with what the user's role may see.  SetRole changes the role in *)
(* three saves.                                                            *)
(*                                                                         *)
(* A row is told by the time it was written.  React Query runs one request *)
(* per list; one it has cancelled goes on, and its answer still counts.    *)
(***************************************************************************)
EXTENDS Integers

CONSTANTS
    Object, Report,
    ReportOf,       \* the report of each object
    Reporter,       \* the role of who made each report, or Me
    Stored,         \* the status of each object there is at first, or "none"
    Request,        \* requests that may be under way
    MaxTime,        \* bound: rows written
    MaxChanges,     \* bound: changes of the journey's id and calls of SetRole
    NewRole,        \* the roles SetRole is called with
    Ahead, Behind   \* how far the client's clock may be off the server's

Me == "me"
NoJourney == "no journey"      \* currentReportId is undefined
NoRequest == "no request"
Role == {"Bruker", "Pilot", "Kartverket"}
Status == {"draft", "resolved", "closed"}

\* The page shows journeys of its user only.
Key == {NoJourney} \cup {r \in Report : Reporter[r] = Me}

ASSUME FeedKeys == NoJourney \notin Report /\ NoRequest \notin Request

ASSUME FeedBounds ==
    /\ Object # {} /\ ReportOf \in [Object -> Report]
    /\ Reporter \in [Report -> Role \cup {Me}]
    /\ Stored \in [Object -> Status \cup {"none"}]
    /\ MaxTime \in Nat \ {0} /\ MaxChanges \in Nat
    /\ NewRole \subseteq Role /\ Ahead \in Nat /\ Behind \in Nat

VARIABLES
    clock,              \* the time of the last write
    row, unsaved,       \* the objects; those of transactions that are not committed
    roles, roleId,      \* the user's roles, and the column of the user's row
    setting,            \* the SetRole call
    key,                \* currentReportId
    lastFetch,          \* lastFetchTimeRef; 0: null
    list,               \* the data of the query of each key
    screen,             \* what useQuery returns, placeholder data included
    live,               \* the request each query waits for
    request,
    changes

server == <<clock, row, unsaved>>
user == <<roles, roleId, setting>>
page == <<key, lastFetch, list, screen, live, request>>
vars == <<server, user, page, changes>>

-----------------------------------------------------------------------------
Nothing == [o \in Object |-> 0]
NoList == [o \in Object |-> -1]    \* the query has no data
NoRow == [status |-> "none", time |-> 0]
Row == [status : Status \cup {"none"}, time : Nat]

Step == {"done", "remove", "add", "update", "failed"}
Free == [state |-> "free", key |-> NoJourney, since |-> 0, answer |-> Nothing,
         again |-> FALSE]
Asked(k, since, again) == [Free EXCEPT !.state = "asked", !.key = k, !.since = since,
                                       !.again = again]
UnderWay(q) == request[q].state # "free"

\* The page is shown: SetRole is a link that leaves it.
Open == setting.step \in {"done", "failed"}

\* GetAllObjectsSince, for the highest of the user's roles.
Visible(o) ==
    LET by == Reporter[ReportOf[o]] IN
    /\ row[o].status \in {"draft", "resolved"}
    /\ \/ "Kartverket" \in roles
       \/ roles # {} /\ (by = Me \/ row[o].status = "resolved")
       \/ "Pilot" \in roles /\ by # "Bruker"

Init ==
    /\ clock = 1 /\ unsaved = [o \in Object |-> NoRow]
    /\ row = [o \in Object |-> IF Stored[o] = "none" THEN NoRow
                              ELSE [status |-> Stored[o], time |-> 1]]
    /\ roles = {"Bruker"} /\ roleId = "Bruker" /\ changes = 0
    /\ setting = [step |-> "done", role |-> "Bruker"]
    /\ key = NoJourney /\ lastFetch = 0 /\ screen = Nothing
    /\ list = [k \in Key |-> NoList] /\ live = [k \in Key |-> NoRequest]
    /\ request = [q \in Request |-> Free]

-----------------------------------------------------------------------------
(* The server. *)

\* SaveChanges: UpdateTimestamps, and the rows are written but not committed.
SaveChanges(o) ==
    /\ clock < MaxTime /\ unsaved[o] = NoRow
    /\ \E status \in Status :
           unsaved' = [unsaved EXCEPT ![o] = [status |-> status, time |-> clock + 1]]
    /\ clock' = clock + 1
    /\ UNCHANGED <<row, user, page, changes>>

Commit(o) ==
    /\ unsaved[o] # NoRow
    /\ row' = [row EXCEPT ![o] = unsaved[o]]
    /\ unsaved' = [unsaved EXCEPT ![o] = NoRow]
    /\ UNCHANGED <<clock, user, page, changes>>

\* A transaction that fails, or one that removes an object: DeleteObject leaves
\* no row that a later poll could find.
RollbackOrDelete(o) ==
    /\ unsaved[o] # NoRow
    /\ unsaved' = [unsaved EXCEPT ![o] = NoRow]
    /\ row' \in {row, [row EXCEPT ![o] = NoRow]}
    /\ UNCHANGED <<clock, user, page, changes>>

\* Faulty: the journey's own objects are sent as well.
Sent_Own(o, k, since) == Visible(o) /\ row[o].time >= since

\* The rows of an answer to a request for list k.
Sent(o, k, since) == Visible(o) /\ ReportOf[o] # k /\ row[o].time >= since

Answer(k, since) == [o \in Object |-> IF Sent(o, k, since) THEN row[o].time ELSE 0]

GetObjects(q) ==
    /\ request[q].state = "asked" /\ Open
    /\ request' = [request EXCEPT ![q] =
           [Asked(request[q].key, 0, request[q].again) EXCEPT
               !.state = "served", !.answer = Answer(request[q].key, request[q].since)]]
    /\ UNCHANGED <<server, user, key, lastFetch, list, screen, live, changes>>

-----------------------------------------------------------------------------
(* The page. *)

\* The query of list k starts a request; an earlier one is not waited for any more.
Fetch(k, q, since) ==
    /\ ~ UnderWay(q) /\ q = CHOOSE p \in Request : ~ UnderWay(p)
    /\ request' = [request EXCEPT ![q] = Asked(k, since, FALSE)]
    /\ live' = [live EXCEPT ![k] = q]

\* refetchInterval.
Poll ==
    /\ Open /\ live[key] = NoRequest
    /\ \E q \in Request : Fetch(key, q, lastFetch)
    /\ UNCHANGED <<server, user, key, lastFetch, list, screen, changes>>

\* An object was synced: invalidateQueries cancels the request under way, unless
\* it is the list's first.
Invalidate ==
    /\ Open /\ live[key] # NoRequest /\ list[key] # NoList
    /\ \E q \in Request : Fetch(key, q, lastFetch)
    /\ UNCHANGED <<server, user, key, lastFetch, list, screen, changes>>

\* Faulty: the time of the last answer is kept.
SetKey_KeepTime(k) ==
    /\ Open /\ changes < MaxChanges /\ k # key
    /\ key' = k /\ changes' = changes + 1
    /\ screen' = IF list[k] # NoList THEN list[k] ELSE screen
    /\ \/ live[k] = NoRequest /\ \E q \in Request : Fetch(k, q, lastFetch)
       \/ (live[k] # NoRequest \/ list[k] # NoList) /\ UNCHANGED <<request, live>>
    /\ UNCHANGED <<server, user, lastFetch, list>>

\* The journey gets its id, ends or goes on: the effect forgets the time before
\* the query of the new key starts; it need not when its data are fresh.  Until
\* it has data those of the former key are shown (keepPreviousData).
SetKey(k) ==
    /\ Open /\ changes < MaxChanges /\ k # key
    /\ key' = k /\ lastFetch' = 0 /\ changes' = changes + 1
    /\ screen' = IF list[k] # NoList THEN list[k] ELSE screen
    /\ \/ live[k] = NoRequest /\ \E q \in Request : Fetch(k, q, 0)
       \/ (live[k] # NoRequest \/ list[k] # NoList) /\ UNCHANGED <<request, live>>
    /\ UNCHANGED <<server, user, list>>

\* Faulty: the answer replaces the list.
Merged_Replaced(k, answer) == answer

\* The objects of an answer replace those of the list or are added to it.
Merged(k, answer) ==
    IF list[k] = NoList THEN answer
    ELSE [o \in Object |-> IF answer[o] # 0 THEN answer[o] ELSE list[k][o]]

\* The answer of a request that was cancelled is merged into data there are; that
\* of a request for another list sets the time as well.
Arrive(q) ==
    LET k == request[q].key
        taken == list[k] # NoList \/ live[k] = q
        new == Merged(k, request[q].answer)
    IN  /\ request[q].state = "served" /\ Open
        /\ lastFetch' \in {t \in 1..(clock + 1 + Ahead) : t >= clock + 1 - Behind}
        /\ list' = IF taken THEN [list EXCEPT ![k] = new] ELSE list
        /\ screen' = IF taken /\ k = key THEN new ELSE screen
        /\ live' = IF live[k] = q THEN [live EXCEPT ![k] = NoRequest] ELSE live
        /\ request' = [request EXCEPT ![q] = Free]
        /\ UNCHANGED <<server, user, key, changes>>

\* Faulty: the query does not learn of it.
Fails_Silent(q) ==
    /\ request[q].state \in {"asked", "served"} /\ Open
    /\ request' = [request EXCEPT ![q] = Free]
    /\ UNCHANGED <<server, user, key, lastFetch, list, screen, live, changes>>

\* A request fails.  With data, the query goes on with those; without, it tries
\* once more (retry: 1), from the time there is by then.
Fails(q) ==
    LET k == request[q].key IN
    /\ request[q].state \in {"asked", "served"} /\ Open
    /\ IF live[k] = q /\ list[k] = NoList /\ ~ request[q].again
       THEN /\ request' = [request EXCEPT ![q] = [Free EXCEPT !.state = "waiting", !.key = k]]
            /\ UNCHANGED live
       ELSE /\ request' = [request EXCEPT ![q] = Free]
            /\ live' = IF live[k] = q THEN [live EXCEPT ![k] = NoRequest] ELSE live
    /\ UNCHANGED <<server, user, key, lastFetch, list, screen, changes>>

\* The time may be that of an answer for another list.
Retry(q) ==
    /\ request[q].state = "waiting" /\ Open
    /\ request' = [request EXCEPT ![q] = Asked(request[q].key, lastFetch, TRUE)]
    /\ UNCHANGED <<server, user, key, lastFetch, list, screen, live, changes>>

\* A list nobody shows is dropped after a while (gcTime).
Forget(k) ==
    /\ Open /\ k # key /\ list[k] # NoList
    /\ \A q \in Request : UnderWay(q) => request[q].key # k
    /\ list' = [list EXCEPT ![k] = NoList]
    /\ UNCHANGED <<server, user, key, lastFetch, screen, live, request, changes>>

-----------------------------------------------------------------------------
(* The role. *)

\* The link leaves the page; it comes back without lists, for the same journey.
SetRole ==
    /\ Open /\ changes < MaxChanges
    /\ \E r \in NewRole : setting' = [step |-> "remove", role |-> r]
    /\ changes' = changes + 1
    /\ lastFetch' = 0 /\ screen' = Nothing
    /\ list' = [k \in Key |-> NoList] /\ live' = [k \in Key |-> NoRequest]
    /\ request' = [q \in Request |-> Free]
    /\ UNCHANGED <<server, roles, roleId, key>>

\* Faulty: the role of the column is removed.
RemoveFromRoles_Column ==
    /\ setting.step = "remove"
    /\ roles' = roles \ {roleId} /\ setting' = [setting EXCEPT !.step = "add"]
    /\ UNCHANGED <<server, page, roleId, changes>>

RemoveFromRoles ==
    /\ setting.step = "remove"
    /\ roles' = {} /\ setting' = [setting EXCEPT !.step = "add"]
    /\ UNCHANGED <<server, page, roleId, changes>>

AddToRole ==
    /\ setting.step = "add"
    /\ roles' = roles \cup {setting.role} /\ setting' = [setting EXCEPT !.step = "update"]
    /\ UNCHANGED <<server, page, roleId, changes>>

UpdateUser ==
    /\ setting.step = "update"
    /\ roleId' = setting.role /\ setting' = [setting EXCEPT !.step = "done"]
    /\ UNCHANGED <<server, page, roles, changes>>

\* Nothing puts back what was saved before.
SetRoleFails ==
    /\ ~ Open
    /\ setting' = [step |-> "failed", role |-> roleId]
    /\ UNCHANGED <<server, page, roles, roleId, changes>>

-----------------------------------------------------------------------------
Server == \E o \in Object : SaveChanges(o) \/ Commit(o) \/ RollbackOrDelete(o)
Page ==
    \/ Poll \/ Invalidate
    \/ \E k \in Key : SetKey(k) \/ Forget(k)
    \/ \E q \in Request : GetObjects(q) \/ Arrive(q) \/ Fails(q) \/ Retry(q)
RoleStep == RemoveFromRoles \/ AddToRole \/ UpdateUser \/ SetRoleFails

Next == Server \/ Page \/ SetRole \/ RoleStep
Spec == Init /\ [][Next]_vars

\* SetRole ends, the interval goes on, requests end, and not every one fails.
Fairness ==
    /\ WF_vars(RoleStep) /\ WF_vars(Poll)
    /\ WF_vars(\E q \in Request : Retry(q) \/ Arrive(q) \/ Fails(q))
    /\ SF_vars(\E q \in Request : GetObjects(q)) /\ SF_vars(\E q \in Request : Arrive(q))

-----------------------------------------------------------------------------
(* Properties; those of the lists are in MapFeedRequirements. *)

TypeOK ==
    /\ clock \in 0..MaxTime /\ row \in [Object -> Row] /\ unsaved \in [Object -> Row]
    /\ roles \in SUBSET Role /\ roleId \in Role /\ changes \in 0..MaxChanges
    /\ setting \in [step : Step, role : Role]
    /\ key \in Key /\ lastFetch \in Nat
    /\ list \in [Key -> [Object -> Nat] \cup {NoList}]
    /\ screen \in [Object -> Nat]
    /\ live \in [Key -> Request \cup {NoRequest}]
    /\ \A k \in Key : live[k] # NoRequest => UnderWay(live[k]) /\ request[live[k]].key = k
    /\ request \in [Request -> [state : {"free", "asked", "served", "waiting"}, key : Key,
                                since : Nat, answer : [Object -> Nat], again : BOOLEAN]]

\* A user has one role, the same in both places, after any SetRole that went
\* through, whatever failed before; and never two.
RolesAgree ==
    /\ setting.step = "done" => roles = {roleId}
    /\ \A r, s \in roles : r = s
=============================================================================
