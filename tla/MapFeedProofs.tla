---------------------------- MODULE MapFeedProofs ----------------------------
(***************************************************************************)
(* The map feed, for any objects, reports and requests: its types, and     *)
(* that no list misses what its time says it has, except rows at risk, so  *)
(* each is as good as one fetched anew.                                    *)
(***************************************************************************)
EXTENDS MapFeedRequirements, TLAPS

-----------------------------------------------------------------------------
(* Types. *)

RequestType == [state : {"free", "asked", "served", "waiting"}, key : Key,
                since : Nat, answer : [Object -> Nat], again : BOOLEAN]

\* The records that requests are made of are requests.
LEMMA RequestRecords ==
    /\ Free \in RequestType
    /\ \A k \in Key, n \in Nat, b \in BOOLEAN : Asked(k, n, b) \in RequestType
    /\ \A k \in Key : [Free EXCEPT !.state = "waiting", !.key = k] \in RequestType
<1>1. Nothing \in [Object -> Nat]
  BY DEF Nothing
<1>2. NoJourney \in Key
  BY DEF Key
<1> QED
  BY <1>1, <1>2 DEF Free, Asked, RequestType

\* What each kind of row is.
LEMMA RowRecords ==
    /\ NoRow \in Row
    /\ \A s \in Status, n \in Nat : [status |-> s, time |-> n] \in Row
  BY DEF NoRow, Row, Status

\* A new request keeps the queries and the requests in step.
LEMMA FetchTypes ==
    ASSUME TypeOK, NEW k \in Key, NEW q \in Request, NEW n \in Nat, Fetch(k, q, n)
    PROVE  /\ live' \in [Key -> Request \cup {NoRequest}]
           /\ request' \in [Request -> RequestType]
           /\ \A j \in Key : live'[j] # NoRequest =>
                  request'[live'[j]].state # "free" /\ request'[live'[j]].key = j
<1>1. Asked(k, n, FALSE) \in RequestType
  BY RequestRecords
<1>2. Asked(k, n, FALSE).state = "asked" /\ Asked(k, n, FALSE).key = k
  BY DEF Asked, Free
<1>3. request \in [Request -> RequestType]
  BY DEF TypeOK, RequestType
<1>4. ASSUME NEW j \in Key, live'[j] # NoRequest
      PROVE  request'[live'[j]].state # "free" /\ request'[live'[j]].key = j
  <2>1. CASE j = k
    BY <1>1, <1>2, <1>3, <2>1 DEF TypeOK, Fetch
  <2>2. CASE j # k
    <3>1. live'[j] = live[j] /\ live[j] \in Request /\ UnderWay(live[j])
          /\ request[live[j]].key = j
      BY <1>4, <2>2 DEF TypeOK, Fetch
    <3>2. live[j] # q
      BY <3>1 DEF Fetch
    <3> QED
      BY <1>3, <3>1, <3>2 DEF Fetch, UnderWay
  <2> QED
    BY <2>1, <2>2
<1> QED
  BY <1>1, <1>3, <1>4 DEF TypeOK, Fetch

\* What the server sends, and what the page makes of it, are lists.
LEMMA AnswerTypes ==
    ASSUME TypeOK, NEW k \in Key, NEW q \in Request
    PROVE  /\ Answer(request[q].key, request[q].since) \in [Object -> Nat]
           /\ Merged(k, request[q].answer) \in [Object -> Nat]
<1>1. \A o \in Object : row[o].time \in Nat
  BY DEF TypeOK, Row
<1>2. request[q].answer \in [Object -> Nat]
  BY DEF TypeOK
<1>3. list[k] = NoList \/ list[k] \in [Object -> Nat]
  BY DEF TypeOK
<1>4. Merged(k, request[q].answer) \in [Object -> Nat]
  <2>1. CASE list[k] = NoList
    BY <1>2, <2>1 DEF Merged
  <2>2. CASE list[k] # NoList
    BY <1>2, <1>3, <2>2 DEF Merged
  <2> QED
    BY <2>1, <2>2
<1> QED
  BY <1>1, <1>4 DEF Answer

LEMMA TypeInit == Init => TypeOK
<1> SUFFICES ASSUME Init PROVE TypeOK
  OBVIOUS
<1>1. list \in [Key -> [Object -> Nat] \cup {NoList}]
  BY DEF Init
<1>2. request \in [Request -> RequestType]
  BY RequestRecords DEF Init
<1>3. row \in [Object -> Row] /\ unsaved \in [Object -> Row]
  <2>1. \A o \in Object : Stored[o] # "none" => [status |-> Stored[o], time |-> 1] \in Row
    BY FeedBounds, RowRecords
  <2> QED
    BY <2>1, RowRecords DEF Init
<1>4. screen \in [Object -> Nat]
  BY DEF Init, Nothing
<1>5. live = [k \in Key |-> NoRequest] /\ key \in Key
  BY DEF Init, Key
<1>6. /\ clock \in 0..MaxTime /\ changes \in 0..MaxChanges /\ lastFetch \in Nat
      /\ roles \in SUBSET Role /\ roleId \in Role /\ setting \in [step : Step, role : Role]
  BY FeedBounds DEF Init, Role, Step
<1> QED
  BY <1>1, <1>2, <1>3, <1>4, <1>5, <1>6 DEF TypeOK, RequestType

\* The types that a step of the server keeps.
LEMMA ServerTypes ==
    ASSUME TypeOK, Server
    PROVE  TypeOK'
<1>1. PICK o \in Object : SaveChanges(o) \/ Commit(o) \/ RollbackOrDelete(o)
  BY DEF Server
<1>2. row' \in [Object -> Row] /\ unsaved' \in [Object -> Row] /\ clock' \in 0..MaxTime
  <2>1. CASE SaveChanges(o)
    BY <2>1, FeedBounds, RowRecords DEF SaveChanges, TypeOK
  <2>2. CASE Commit(o)
    BY <2>2, RowRecords DEF Commit, TypeOK
  <2>3. CASE RollbackOrDelete(o)
    BY <2>3, RowRecords DEF RollbackOrDelete, TypeOK
  <2> QED
    BY <1>1, <2>1, <2>2, <2>3
<1>3. UNCHANGED <<user, page, changes>>
  BY <1>1 DEF SaveChanges, Commit, RollbackOrDelete
<1> QED
  BY <1>2, <1>3 DEF TypeOK, user, page, UnderWay

\* What ends a request keeps the queries and the requests in step.
LEMMA EndTypes ==
    ASSUME TypeOK, NEW q \in Request,
           request' = [request EXCEPT ![q] = Free],
           live' = IF live[request[q].key] = q
                   THEN [live EXCEPT ![request[q].key] = NoRequest] ELSE live
    PROVE  /\ live' \in [Key -> Request \cup {NoRequest}]
           /\ request' \in [Request -> RequestType]
           /\ \A j \in Key : live'[j] # NoRequest =>
                  request'[live'[j]].state # "free" /\ request'[live'[j]].key = j
<1>1. request \in [Request -> RequestType] /\ request' \in [Request -> RequestType]
      /\ request[q].key \in Key
  BY RequestRecords DEF TypeOK, RequestType
<1>2. ASSUME NEW j \in Key, live'[j] # NoRequest
      PROVE  request'[live'[j]].state # "free" /\ request'[live'[j]].key = j
  <2>1. live'[j] = live[j] /\ live[j] \in Request /\ UnderWay(live[j])
        /\ request[live[j]].key = j
    BY <1>1, <1>2 DEF TypeOK
  <2>2. live[j] # q
    BY <1>1, <1>2, <2>1 DEF TypeOK
  <2> QED
    BY <1>1, <2>1, <2>2 DEF UnderWay
<1> QED
  BY <1>1, <1>2 DEF TypeOK

\* A request that goes on for the same list keeps the queries and the requests in
\* step.
LEMMA GoesOn ==
    ASSUME TypeOK, NEW q \in Request, NEW r \in RequestType,
           r.state # "free", r.key = request[q].key,
           request' = [request EXCEPT ![q] = r], live' = live
    PROVE  /\ live' \in [Key -> Request \cup {NoRequest}]
           /\ request' \in [Request -> RequestType]
           /\ \A j \in Key : live'[j] # NoRequest =>
                  request'[live'[j]].state # "free" /\ request'[live'[j]].key = j
<1>1. request \in [Request -> RequestType]
  BY DEF TypeOK, RequestType
<1>2. request' \in [Request -> RequestType]
  BY <1>1
<1> HIDE DEF RequestType
<1> QED
  BY <1>1, <1>2 DEF TypeOK, UnderWay

\* The types that a step of the page keeps.
LEMMA PageTypes ==
    ASSUME TypeOK, Page
    PROVE  TypeOK'
<1> DEFINE Requests == /\ live \in [Key -> Request \cup {NoRequest}]
                       /\ request \in [Request -> RequestType]
                       /\ \A j \in Key : live[j] # NoRequest =>
                             request[live[j]].state # "free" /\ request[live[j]].key = j
           Lists == /\ key \in Key /\ lastFetch \in Nat /\ changes \in 0..MaxChanges
                    /\ list \in [Key -> [Object -> Nat] \cup {NoList}]
                    /\ screen \in [Object -> Nat]
<1> SUFFICES UNCHANGED <<server, user>> /\ Requests' /\ Lists'
  BY DEF TypeOK, RequestType, server, user, UnderWay
<1>1. Requests /\ Lists
  BY DEF TypeOK, RequestType, UnderWay
<1>2. CASE Poll
  BY <1>1, <1>2, FetchTypes DEF Poll, TypeOK
<1>3. CASE Invalidate
  BY <1>1, <1>3, FetchTypes DEF Invalidate, TypeOK
<1>4. ASSUME NEW k \in Key, SetKey(k)
      PROVE  UNCHANGED <<server, user>> /\ Requests' /\ Lists'
  <2>1. Requests'
    <3>1. CASE \E q \in Request : Fetch(k, q, 0)
      BY <1>1, <3>1, FetchTypes
    <3>2. CASE UNCHANGED <<request, live>>
      BY <1>1, <3>2
    <3> QED
      BY <1>4, <3>1, <3>2 DEF SetKey
  <2>2. Lists'
    BY <1>1, <1>4, FeedBounds DEF SetKey
  <2> QED
    BY <1>4, <2>1, <2>2 DEF SetKey
<1>5. ASSUME NEW k \in Key, Forget(k)
      PROVE  UNCHANGED <<server, user>> /\ Requests' /\ Lists'
  BY <1>1, <1>5 DEF Forget
<1>6. ASSUME NEW q \in Request, GetObjects(q)
      PROVE  UNCHANGED <<server, user>> /\ Requests' /\ Lists'
  <2> DEFINE answer == Answer(request[q].key, request[q].since)
             served == [Asked(request[q].key, 0, request[q].again) EXCEPT
                           !.state = "served", !.answer = answer]
  <2>1. request' = [request EXCEPT ![q] = served] /\ UNCHANGED <<server, user, live>>
    BY <1>6 DEF GetObjects
  <2>2. answer \in [Object -> Nat]
    BY <1>1, AnswerTypes DEF TypeOK
  <2> HIDE DEF answer
  <2>3. served \in RequestType /\ served.state = "served" /\ served.key = request[q].key
    BY <1>1, <2>2 DEF RequestType, Asked, Free
  <2> HIDE DEF served
  <2>4. Requests'
    BY <2>1, <2>3, GoesOn
  <2> QED
    BY <1>1, <1>6, <2>4 DEF GetObjects
<1>7. ASSUME NEW q \in Request, Arrive(q)
      PROVE  UNCHANGED <<server, user>> /\ Requests' /\ Lists'
  <2>1. Requests'
    BY <1>7, EndTypes DEF Arrive
  <2>2. Merged(request[q].key, request[q].answer) \in [Object -> Nat]
    BY AnswerTypes DEF TypeOK
  <2>3. lastFetch' \in Nat
    BY <1>7 DEF Arrive, TypeOK
  <2> QED
    BY <1>1, <1>7, <2>1, <2>2, <2>3 DEF Arrive
<1>8. ASSUME NEW q \in Request, Fails(q)
      PROVE  UNCHANGED <<server, user>> /\ Requests' /\ Lists'
  <2> DEFINE waiting == [Free EXCEPT !.state = "waiting", !.key = request[q].key]
  <2>1. waiting \in RequestType /\ waiting.state = "waiting" /\ waiting.key = request[q].key
    BY <1>1, RequestRecords DEF RequestType, Free
  <2>2. CASE request' = [request EXCEPT ![q] = waiting] /\ live' = live
    BY <1>1, <1>8, <2>1, <2>2 DEF Fails
  <2>3. CASE /\ request' = [request EXCEPT ![q] = Free]
             /\ live' = IF live[request[q].key] = q
                        THEN [live EXCEPT ![request[q].key] = NoRequest] ELSE live
    BY <1>1, <1>8, <2>3, EndTypes DEF Fails
  <2> QED
    BY <1>8, <2>2, <2>3 DEF Fails
<1>9. ASSUME NEW q \in Request, Retry(q)
      PROVE  UNCHANGED <<server, user>> /\ Requests' /\ Lists'
  <2> DEFINE asked == Asked(request[q].key, lastFetch, TRUE)
  <2>1. asked \in RequestType /\ asked.state = "asked" /\ asked.key = request[q].key
    <3>1. request[q].key \in Key /\ lastFetch \in Nat
      BY <1>1 DEF RequestType
    <3>2. asked \in RequestType
      BY <3>1, RequestRecords
    <3> QED
      BY <3>2 DEF Asked, Free
  <2>2. request' = [request EXCEPT ![q] = asked]
    BY <1>9 DEF Retry
  <2> HIDE DEF asked
  <2>3. Requests'
    BY <1>9, <2>1, <2>2, GoesOn DEF Retry
  <2> QED
    BY <1>1, <1>9, <2>3 DEF Retry
<1> QED
  BY <1>2, <1>3, <1>4, <1>5, <1>6, <1>7, <1>8, <1>9 DEF Page

\* The types that a change of the role keeps.
LEMMA RoleTypes ==
    ASSUME TypeOK, SetRole \/ RoleStep
    PROVE  TypeOK'
<1>1. CASE SetRole
  <2>1. list' \in [Key -> [Object -> Nat] \cup {NoList}] /\ screen' \in [Object -> Nat]
        /\ live' = [k \in Key |-> NoRequest]
    BY <1>1 DEF SetRole, Nothing
  <2>2. request' \in [Request -> RequestType]
    BY <1>1, RequestRecords DEF SetRole
  <2>3. setting' \in [step : Step, role : Role] /\ changes' \in 0..MaxChanges
    BY <1>1, FeedBounds DEF SetRole, Step, TypeOK
  <2> QED
    BY <1>1, <2>1, <2>2, <2>3 DEF SetRole, TypeOK, RequestType, server
<1>2. CASE RoleStep
  <2>1. UNCHANGED <<server, page, changes>>
    BY <1>2 DEF RoleStep, RemoveFromRoles, AddToRole, UpdateUser, SetRoleFails
  <2>2. roles' \in SUBSET Role /\ roleId' \in Role /\ setting' \in [step : Step, role : Role]
    BY <1>2 DEF RoleStep, RemoveFromRoles, AddToRole, UpdateUser, SetRoleFails, TypeOK, Step
  <2> QED
    BY <2>1, <2>2 DEF TypeOK, server, page, UnderWay
<1> QED
  BY <1>1, <1>2

\* The types that every step keeps.
LEMMA TypeNext == ASSUME TypeOK, [Next]_vars PROVE TypeOK'
<1>1. CASE UNCHANGED vars
  BY <1>1 DEF TypeOK, vars, server, user, page, UnderWay
<1> QED
  BY <1>1, ServerTypes, PageTypes, RoleTypes DEF Next

\* Every state of the feed has its type.
THEOREM FeedTypeCorrect == Spec => []TypeOK
  BY TypeInit, TypeNext, PTL DEF Spec

-----------------------------------------------------------------------------
(* Nothing is missed. *)

\* A row that is not saved yet is at risk or will be asked for: by the next request,
\* and by each one under way, which the server has not answered.
AskedFor(o) ==
    \/ unsaved[o].time \in atRisk
    \/ /\ unsaved[o].time >= lastFetch
       /\ \A q \in Request :
              UnderWay(q) => request[q].state # "served" /\ unsaved[o].time >= request[q].since

Times ==
    \A o \in Object : /\ row[o].status # "none" => row[o].time > 0
                      /\ unsaved[o] # NoRow => unsaved[o].time > 0 /\ AskedFor(o)

\* What each request can rely on, and what its answer is worth.
RequestOK(q) ==
    LET k == request[q].key IN
    /\ Covered(k, request[q].since)
    /\ live[k] # q => list[k] # NoList
    /\ request[q].state = "waiting" => live[k] = q /\ list[k] = NoList
    /\ request[q].state = "served" =>
           \A o \in Object :
               /\ ReportOf[o] = k => request[q].answer[o] = 0
               /\ Visible(o) /\ ReportOf[o] # k =>
                      \/ row[o].time \in atRisk
                      \/ request[q].answer[o] = row[o].time
                      \/ /\ request[q].answer[o] = 0
                         /\ list[k] # NoList /\ list[k][o] = row[o].time

\* While the role changes there is no page.
Left == ~ Open => lastFetch = 0 /\ \A q \in Request : ~ UnderWay(q)

\* The objects of a journey are not on its list.
OwnOut == \A k \in Key, o \in Object : list[k] # NoList /\ ReportOf[o] = k => list[k][o] = 0

FeedInv ==
    /\ TypeOK /\ Times /\ Left /\ OwnOut
    /\ list[key] # NoList => Covered(key, lastFetch)
    /\ \A q \in Request : UnderWay(q) => RequestOK(q)

\* A row that is seen has been written.
LEMMA SeenRows ==
    ASSUME Times, NEW o \in Object, Visible(o)
    PROVE  row[o].time > 0
  BY DEF Times, Visible

\* Who sees a row that stays as it is does so afterwards, too, and nobody sees none.
LEMMA VisibleStays ==
    ASSUME NEW o \in Object
    PROVE  /\ row'[o] = row[o] /\ roles' = roles => (Visible(o)' <=> Visible(o))
           /\ row'[o] = NoRow => ~ Visible(o)'
  BY DEF Visible, NoRow

\* What is covered stays so when rows that change are later or at risk.
LEMMA CoveredStays ==
    ASSUME NEW k, NEW t \in Nat, Covered(k, t), roles' = roles, list'[k] = list[k],
           atRisk \subseteq atRisk',
           \A o \in Object : \/ row'[o] = row[o]
                             \/ row'[o] = NoRow
                             \/ row'[o].time \in atRisk
                             \/ row'[o].time \in Nat /\ row'[o].time >= t
    PROVE  \A o \in Object : Visible(o)' /\ ReportOf[o] # k /\ row'[o].time < t
               => \/ row'[o].time \in atRisk'
                  \/ list'[k] # NoList /\ list'[k][o] = row'[o].time
<1> SUFFICES ASSUME NEW o \in Object, Visible(o)', ReportOf[o] # k, row'[o].time < t,
                    row'[o].time \notin atRisk'
             PROVE  list'[k] # NoList /\ list'[k][o] = row'[o].time
  BY Zenon
<1>1. CASE row'[o] = row[o]
  BY <1>1, VisibleStays DEF Covered
<1>2. CASE row'[o] = NoRow
  BY <1>2, VisibleStays
<1>3. CASE row'[o].time \in Nat /\ row'[o].time >= t
  BY <1>3
<1> QED
  BY <1>1, <1>2, <1>3

\* A request that a step leaves alone, with its list, stays right.
LEMMA RequestStays ==
    ASSUME NEW q \in Request, TypeOK, RequestOK(q), request'[q] = request[q],
           roles' = roles, atRisk \subseteq atRisk',
           list'[request[q].key] = list[request[q].key],
           live[request[q].key] = q => \/ live'[request[q].key] = q
                                       \/ list[request[q].key] # NoList,
           \A o \in Object : \/ row'[o] = row[o]
                             \/ row'[o] = NoRow
                             \/ row'[o].time \in atRisk
                             \/ /\ row'[o].time \in Nat /\ row'[o].time >= request[q].since
                                /\ request[q].state # "served"
    PROVE  RequestOK(q)'
<1> DEFINE k == request[q].key
           t == request[q].since
<1>1. t \in Nat
  BY DEF TypeOK
<1>2. Covered(request[q].key, request[q].since)'
  <2>1. \A o \in Object : Visible(o)' /\ ReportOf[o] # k /\ row'[o].time < t
            => \/ row'[o].time \in atRisk'
               \/ list'[k] # NoList /\ list'[k][o] = row'[o].time
    BY <1>1, CoveredStays DEF RequestOK
  <2> QED
    BY <2>1 DEF Covered
<1>3. ASSUME request[q].state = "served", NEW o \in Object, Visible(o)', ReportOf[o] # k,
             row'[o].time \notin atRisk'
      PROVE  \/ request[q].answer[o] = row'[o].time
             \/ request[q].answer[o] = 0 /\ list'[k] # NoList /\ list'[k][o] = row'[o].time
  <2>1. row'[o] = row[o] /\ Visible(o)
    BY <1>3, VisibleStays
  <2> QED
    BY <1>3, <2>1 DEF RequestOK
<1>4. /\ live'[k] # q => list'[k] # NoList
      /\ request[q].state = "waiting" => live'[k] = q /\ list'[k] = NoList
      /\ request[q].state = "served" =>
             \A o \in Object : ReportOf[o] = k => request[q].answer[o] = 0
  BY DEF RequestOK
<1> QED
  BY <1>2, <1>3, <1>4 DEF RequestOK

LEMMA InvInit == HistoryInit => FeedInv
<1> SUFFICES ASSUME HistoryInit PROVE FeedInv
  OBVIOUS
<1>1. TypeOK /\ Init
  BY TypeInit DEF HistoryInit
<1>2. \A q \in Request : ~ UnderWay(q)
  BY <1>1 DEF Init, UnderWay, Free
<1>3. list[key] = NoList /\ OwnOut
  BY <1>1 DEF Init, OwnOut, TypeOK
<1>4. Times
  <2> SUFFICES ASSUME NEW o \in Object, row[o].status # "none"
               PROVE  row[o].time > 0
    BY <1>1 DEF Times, Init
  <2> QED
    BY <1>1 DEF Init, NoRow
<1>5. Left
  BY <1>1 DEF Left, Init, Open
<1> QED
  BY <1>1, <1>2, <1>3, <1>4, <1>5 DEF FeedInv

\* A step of the server with what it puts at risk.
ServerStep(o) ==
    \/ SaveChanges(o) /\ Marked(IF AnswerOut \/ ClockAhead THEN {clock + 1} ELSE {})
    \/ (Commit(o) \/ RollbackOrDelete(o)) /\ Marked({})

LEMMA InvServer ==
    ASSUME FeedInv, NEW o \in Object, ServerStep(o)
    PROVE  FeedInv'
<1>1. SaveChanges(o) \/ Commit(o) \/ RollbackOrDelete(o)
  BY DEF ServerStep
<1>2. TypeOK /\ TypeOK' /\ Times
  BY <1>1, ServerTypes DEF FeedInv, Server
<1>3. UNCHANGED <<user, page, changes>> /\ atRisk \subseteq atRisk'
  BY <1>1 DEF ServerStep, SaveChanges, Commit, RollbackOrDelete, Marked
<1>4. \A q \in Request : UnderWay(q)' <=> UnderWay(q)
  BY <1>3 DEF UnderWay, page
<1>5. clock \in Nat /\ lastFetch \in Nat /\ (\A q \in Request : request[q].since \in Nat)
      /\ (\A p \in Object : row[p].time \in Nat /\ unsaved[p].time \in Nat)
  BY <1>2 DEF TypeOK, Row
\* What was asked for is so afterwards.
<1>6. ASSUME NEW p \in Object, unsaved'[p] = unsaved[p], AskedFor(p)
      PROVE  AskedFor(p)'
  BY <1>3, <1>4, <1>6 DEF AskedFor, page
<1>7. Times'
  <2>1. CASE SaveChanges(o)
    <3>1. row' = row /\ unsaved'[o].time = clock + 1
          /\ \A p \in Object : p # o => unsaved'[p] = unsaved[p]
      BY <1>2, <2>1 DEF SaveChanges, TypeOK
    <3>2. AskedFor(o)'
      <4>1. CASE AnswerOut \/ ClockAhead
        <5>1. Marked({clock + 1})
          BY <2>1, <4>1 DEF ServerStep, SaveChanges, Commit, RollbackOrDelete
        <5> QED
          BY <1>5, <3>1, <5>1 DEF Marked, AskedFor
      <4>2. CASE ~ AnswerOut /\ ~ ClockAhead
        <5>1. clock + 1 >= lastFetch /\ \A q \in Request :
                  request[q].state # "served" /\ clock + 1 >= request[q].since
          BY <1>5, <4>2 DEF AnswerOut, ClockAhead
        <5> QED
          BY <1>3, <3>1, <5>1 DEF AskedFor, page
      <4> QED
        BY <4>1, <4>2
    <3> QED
      BY <1>2, <1>5, <1>6, <3>1, <3>2 DEF Times
  <2>2. CASE Commit(o) \/ RollbackOrDelete(o)
    <3>1. \A p \in Object : /\ \/ row'[p] = row[p]
                               \/ row'[p] = NoRow
                               \/ row'[p] = unsaved[p] /\ unsaved[p] # NoRow
                            /\ unsaved'[p] = unsaved[p] \/ unsaved'[p] = NoRow
      BY <1>2, <2>2 DEF Commit, RollbackOrDelete, TypeOK
    <3>2. NoRow.status = "none"
      BY DEF NoRow
    <3> QED
      BY <1>2, <1>6, <3>1, <3>2 DEF Times
  <2> QED
    BY <1>1, <2>1, <2>2
\* A row that changes was to be asked for.
<1>8. \A p \in Object : \/ row'[p] = row[p]
                        \/ row'[p] = NoRow
                        \/ row'[p].time \in Nat /\ row'[p].time = unsaved[p].time /\ AskedFor(p)
  <2>1. CASE SaveChanges(o)
    BY <2>1 DEF SaveChanges
  <2>2. CASE Commit(o)
    BY <1>2, <1>5, <2>2 DEF Commit, TypeOK, Times
  <2>3. CASE RollbackOrDelete(o)
    BY <1>2, <2>3 DEF RollbackOrDelete, TypeOK
  <2> QED
    BY <1>1, <2>1, <2>2, <2>3
<1>9. ASSUME list'[key] # NoList
      PROVE  Covered(key, lastFetch)'
  <2>1. Covered(key, lastFetch)
    BY <1>3, <1>9 DEF FeedInv, page
  <2>2. \A p \in Object : \/ row'[p] = row[p]
                          \/ row'[p] = NoRow
                          \/ row'[p].time \in atRisk
                          \/ row'[p].time \in Nat /\ row'[p].time >= lastFetch
    BY <1>8 DEF AskedFor
  <2>3. \A p \in Object : Visible(p)' /\ ReportOf[p] # key /\ row'[p].time < lastFetch
            => \/ row'[p].time \in atRisk'
               \/ list'[key] # NoList /\ list'[key][p] = row'[p].time
    BY <1>3, <1>5, <2>1, <2>2, CoveredStays DEF user, page
  <2> QED
    BY <1>3, <2>3 DEF Covered, page
<1>10. ASSUME NEW q \in Request, UnderWay(q)'
       PROVE  RequestOK(q)'
  <2>1. UnderWay(q) /\ RequestOK(q)
    BY <1>4, <1>10 DEF FeedInv
  <2>2. \A p \in Object : \/ row'[p] = row[p]
                          \/ row'[p] = NoRow
                          \/ row'[p].time \in atRisk
                          \/ /\ row'[p].time \in Nat /\ row'[p].time >= request[q].since
                             /\ request[q].state # "served"
    BY <1>8, <2>1 DEF AskedFor
  <2> QED
    BY <1>2, <1>3, <2>1, <2>2, RequestStays DEF user, page
<1>11. Left' /\ OwnOut'
  BY <1>3, <1>4 DEF FeedInv, Left, OwnOut, Open, user, page
<1> QED
  BY <1>2, <1>3, <1>7, <1>9, <1>10, <1>11 DEF FeedInv, page

\* The invariant after a step of the page in which at most the request q has a part
\* and the lists stay.
LEMMA InvPage ==
    ASSUME FeedInv, TypeOK', Open, NEW q,
           UNCHANGED <<server, user, list>>, atRisk \subseteq atRisk',
           \A p \in Request : p # q => request'[p] = request[p],
           \A p \in Request : p # q /\ UnderWay(p) /\ live[request[p].key] = p
               => live'[request[p].key] = p \/ list[request[p].key] # NoList,
           lastFetch' \in {lastFetch, 0},
           list'[key'] # NoList => Covered(key, lastFetch)',
           q \in Request /\ UnderWay(q)' =>
               /\ RequestOK(q)'
               /\ \/ request'[q].since \in {lastFetch, 0}
                  \/ UnderWay(q) /\ request'[q].since = request[q].since
               /\ request'[q].state = "served" =>
                      \A o \in Object : unsaved[o] # NoRow => unsaved[o].time \in atRisk'
    PROVE  FeedInv'
<1>1. TypeOK /\ Times /\ lastFetch \in Nat /\ (\A o \in Object : unsaved[o].time \in Nat)
      /\ (\A p \in Request : request[p].since \in Nat)
  BY DEF FeedInv, TypeOK, Row
<1>2. Times'
  <2> SUFFICES ASSUME NEW o \in Object, unsaved[o] # NoRow, unsaved[o].time \notin atRisk'
               PROVE  AskedFor(o)'
    BY <1>1 DEF Times, AskedFor, server
  <2>1. unsaved[o].time >= lastFetch /\ \A p \in Request :
            UnderWay(p) => request[p].state # "served" /\ unsaved[o].time >= request[p].since
    BY <1>1 DEF Times, AskedFor
  <2>2. unsaved'[o].time >= lastFetch'
    BY <1>1, <2>1 DEF server
  <2>3. ASSUME NEW p \in Request, UnderWay(p)'
        PROVE  request'[p].state # "served" /\ unsaved'[o].time >= request'[p].since
    <3>1. CASE p = q
      BY <1>1, <2>1, <2>3, <3>1 DEF server
    <3>2. CASE p # q
      BY <1>1, <2>1, <2>3, <3>2 DEF UnderWay, server
    <3> QED
      BY <3>1, <3>2
  <2> QED
    BY <2>2, <2>3 DEF AskedFor
<1>3. ASSUME NEW p \in Request, UnderWay(p)'
      PROVE  RequestOK(p)'
  <2>1. CASE p = q
    BY <1>3, <2>1
  <2>2. CASE p # q
    <3>1. UnderWay(p) /\ RequestOK(p) /\ request'[p] = request[p]
      BY <1>3, <2>2 DEF FeedInv, UnderWay
    <3> QED
      BY <1>1, <2>2, <3>1, RequestStays DEF server, user
  <2> QED
    BY <2>1, <2>2
<1>4. Left' /\ OwnOut'
  BY DEF FeedInv, Left, OwnOut, Open, user
<1> QED
  BY <1>2, <1>3, <1>4 DEF FeedInv

\* What a new request for the list k may rely on, if what it does not ask for is
\* marked.
LEMMA AskingCovers ==
    ASSUME FeedInv, NEW k \in Key, UNCHANGED <<server, user, list>>,
           list[k] # NoList => k = key, Marked(NotAskedFor(k))
    PROVE  \A o \in Object : Visible(o)' /\ ReportOf[o] # k /\ row'[o].time < lastFetch
               => \/ row'[o].time \in atRisk'
                  \/ list'[k] # NoList /\ list'[k][o] = row'[o].time
<1>1. lastFetch \in Nat /\ atRisk \subseteq atRisk'
  BY DEF FeedInv, TypeOK, Marked
<1>2. CASE list[k] # NoList
  <2>1. Covered(k, lastFetch)
    BY <1>2 DEF FeedInv
  <2> QED
    BY <1>1, <2>1, CoveredStays DEF server, user
<1>3. CASE list[k] = NoList
  <2> SUFFICES ASSUME NEW o \in Object, Visible(o)', row'[o].time < lastFetch
               PROVE  row'[o].time \in atRisk'
    BY Zenon
  <2>1. row'[o] = row[o] /\ Visible(o)
    BY VisibleStays DEF server, user
  <2>2. row[o].time # 0
    BY <2>1, SeenRows DEF FeedInv
  <2>3. row[o].time \in NotAskedFor(k)
    BY <1>3, <2>1 DEF NotAskedFor
  <2> QED
    BY <2>1, <2>2, <2>3 DEF Marked
<1> QED
  BY <1>2, <1>3

\* A request that the page starts.
LEMMA Fetched ==
    ASSUME TypeOK, NEW k \in Key, NEW q \in Request, NEW t, Fetch(k, q, t),
           live[k] = NoRequest \/ list[k] # NoList
    PROVE  /\ request'[q].state = "asked" /\ request'[q].key = k /\ request'[q].since = t
           /\ live'[k] = q /\ \A p \in Request : p # q => request'[p] = request[p]
           /\ \A p \in Request : p # q /\ UnderWay(p) /\ live[request[p].key] = p
                  => live'[request[p].key] = p \/ list[request[p].key] # NoList
<1>1. /\ \A p \in Request : p # q => request'[p] = request[p]
      /\ request'[q] = Asked(k, t, FALSE)
      /\ live'[k] = q /\ \A j \in Key : j # k => live'[j] = live[j]
  BY DEF Fetch, TypeOK
<1>2. Asked(k, t, FALSE).state = "asked" /\ Asked(k, t, FALSE).key = k
      /\ Asked(k, t, FALSE).since = t
  BY DEF Asked, Free
<1>3. ASSUME NEW p \in Request, p # q, UnderWay(p), live[request[p].key] = p
      PROVE  live'[request[p].key] = p \/ list[request[p].key] # NoList
  <2>1. request[p].key \in Key /\ p # NoRequest
    BY FeedKeys DEF TypeOK
  <2> QED
    BY <1>1, <1>3, <2>1
<1> QED
  BY <1>1, <1>2, <1>3

LEMMA InvPoll ==
    ASSUME FeedInv, TypeOK',
           (Poll /\ Marked(NotAskedFor(key))) \/ (Invalidate /\ Marked({}))
    PROVE  FeedInv'
<1>1. TypeOK /\ key \in Key /\ lastFetch \in Nat
  BY DEF FeedInv, TypeOK
<1>2. PICK q \in Request : Fetch(key, q, lastFetch)
  BY DEF Poll, Invalidate
<1>3. Open /\ UNCHANGED <<server, user, list, key, lastFetch>>
      /\ (live[key] = NoRequest \/ list[key] # NoList) /\ Marked(NotAskedFor(key))
  BY DEF Poll, Invalidate, NotAskedFor
<1>4. \A o \in Object : Visible(o)' /\ ReportOf[o] # key /\ row'[o].time < lastFetch
          => \/ row'[o].time \in atRisk'
             \/ list'[key] # NoList /\ list'[key][o] = row'[o].time
  BY <1>1, <1>3, AskingCovers
<1>5. /\ request'[q].state = "asked" /\ request'[q].key = key /\ request'[q].since = lastFetch
      /\ live'[key] = q /\ \A p \in Request : p # q => request'[p] = request[p]
      /\ \A p \in Request : p # q /\ UnderWay(p) /\ live[request[p].key] = p
             => live'[request[p].key] = p \/ list[request[p].key] # NoList
  BY <1>1, <1>2, <1>3, Fetched
<1>6. Covered(request[q].key, request[q].since)'
  BY <1>4, <1>5 DEF Covered
<1>7. RequestOK(q)'
  BY <1>5, <1>6 DEF RequestOK
<1>8. Covered(key, lastFetch)' /\ atRisk \subseteq atRisk'
  BY <1>3, <1>4 DEF Covered, Marked
<1> QED
  BY <1>3, <1>5, <1>7, <1>8, InvPage

LEMMA InvSetKey ==
    ASSUME FeedInv, TypeOK', NEW k \in Key, SetKey(k), Marked({})
    PROVE  FeedInv'
<1>1. TypeOK /\ Open /\ UNCHANGED <<server, user, list>> /\ lastFetch' = 0
      /\ atRisk \subseteq atRisk'
  BY DEF FeedInv, SetKey, Marked
<1>2. \A j \in Key : \A o \in Object : row'[o].time \in Nat /\ ~ row'[o].time < 0
  BY DEF TypeOK, Row
<1>3. Covered(key, lastFetch)'
  BY <1>1, <1>2 DEF Covered, TypeOK
<1>4. CASE live[k] = NoRequest /\ \E q \in Request : Fetch(k, q, 0)
  <2>1. PICK q \in Request : Fetch(k, q, 0)
    BY <1>4
  <2>2. /\ request'[q].state = "asked" /\ request'[q].key = k /\ request'[q].since = 0
        /\ live'[k] = q /\ \A p \in Request : p # q => request'[p] = request[p]
        /\ \A p \in Request : p # q /\ UnderWay(p) /\ live[request[p].key] = p
               => live'[request[p].key] = p \/ list[request[p].key] # NoList
    BY <1>1, <1>4, <2>1, Fetched
  <2>3. RequestOK(q)'
    BY <1>2, <2>2 DEF RequestOK, Covered
  <2> QED
    BY <1>1, <1>3, <2>2, <2>3, InvPage
<1>5. CASE UNCHANGED <<request, live>>
  <2>1. NoRequest \notin Request
    BY FeedKeys
  <2> QED
    BY <1>1, <1>3, <1>5, <2>1, InvPage
<1> QED
  BY <1>4, <1>5 DEF SetKey

\* The list of the current journey keeps what it has while requests go on.
LEMMA CurrentStays ==
    ASSUME FeedInv, UNCHANGED <<server, user, key, lastFetch, list>>,
           atRisk \subseteq atRisk', list'[key'] # NoList
    PROVE  Covered(key, lastFetch)'
<1>1. Covered(key, lastFetch) /\ lastFetch \in Nat
  BY DEF FeedInv, TypeOK
<1>2. \A o \in Object : Visible(o)' /\ ReportOf[o] # key /\ row'[o].time < lastFetch
          => \/ row'[o].time \in atRisk'
             \/ list'[key] # NoList /\ list'[key][o] = row'[o].time
  BY <1>1, CoveredStays DEF server, user
<1> QED
  BY <1>2 DEF Covered

LEMMA InvGetObjects ==
    ASSUME FeedInv, TypeOK', NEW q \in Request, GetObjects(q), Marked(Uncommitted)
    PROVE  FeedInv'
<1>1. TypeOK /\ Times /\ Open /\ request[q].state = "asked" /\ UnderWay(q) /\ RequestOK(q)
  BY DEF FeedInv, GetObjects, UnderWay
<1>2. UNCHANGED <<server, user, key, lastFetch, list, live>> /\ atRisk \subseteq atRisk'
  BY DEF GetObjects, Marked
<1> DEFINE k == request[q].key
           answer == Answer(request[q].key, request[q].since)
           served == [Asked(k, 0, request[q].again) EXCEPT
                         !.state = "served", !.answer = answer]
<1>3. request' = [request EXCEPT ![q] = served]
  BY DEF GetObjects
<1>4. served.key = k /\ served.since = 0 /\ served.state = "served" /\ served.answer = answer
  BY DEF Asked, Free
<1> HIDE DEF served
<1>5. request'[q] = served /\ \A p \in Request : p # q => request'[p] = request[p]
  BY <1>1, <1>3 DEF TypeOK
<1>6. Covered(request[q].key, request[q].since)'
  <2>1. \A o \in Object : row'[o].time \in Nat
    BY DEF TypeOK, Row
  <2> QED
    BY <1>4, <1>5, <2>1 DEF Covered
<1>7. ASSUME NEW o \in Object
      PROVE  /\ ReportOf[o] = k => answer[o] = 0
             /\ Visible(o)' /\ ReportOf[o] # k =>
                    \/ row'[o].time \in atRisk'
                    \/ answer[o] = row'[o].time
                    \/ answer[o] = 0 /\ list'[k] # NoList /\ list'[k][o] = row'[o].time
  <2>1. answer[o] = IF Sent(o, k, request[q].since) THEN row[o].time ELSE 0
    BY DEF Answer
  <2> HIDE DEF answer
  <2>2. CASE ~ (Visible(o)' /\ ReportOf[o] # k)
    BY <1>2, <2>1, <2>2, VisibleStays DEF Sent, server, user
  <2>3. CASE Visible(o)' /\ ReportOf[o] # k
    <3>1. Visible(o) /\ row'[o] = row[o]
      BY <1>2, <2>3, VisibleStays DEF server, user
    <3>2. row[o].time \in Nat /\ request[q].since \in Nat
      BY <1>1 DEF TypeOK, Row
    <3>3. CASE row[o].time >= request[q].since
      BY <2>1, <2>3, <3>1, <3>3 DEF Sent
    <3>4. CASE row[o].time < request[q].since
      <4>1. answer[o] = 0
        BY <2>1, <3>2, <3>4 DEF Sent
      <4>2. row[o].time \in atRisk \/ (list[k] # NoList /\ list[k][o] = row[o].time)
        BY <1>1, <2>3, <3>1, <3>4 DEF RequestOK, Covered
      <4> QED
        BY <1>2, <2>3, <3>1, <4>1, <4>2
    <3> QED
      BY <3>2, <3>3, <3>4
  <2> QED
    BY <2>2, <2>3
<1> HIDE DEF answer
<1>8. RequestOK(q)'
  BY <1>1, <1>2, <1>4, <1>5, <1>6, <1>7 DEF RequestOK
<1>9. \A o \in Object : unsaved[o] # NoRow => unsaved[o].time \in atRisk'
  BY <1>1 DEF Marked, Uncommitted, Times
<1>10. list'[key'] # NoList => Covered(key, lastFetch)'
  BY <1>2, CurrentStays
<1> QED
  BY <1>1, <1>2, <1>4, <1>5, <1>8, <1>9, <1>10, InvPage

LEMMA InvFails ==
    ASSUME FeedInv, TypeOK', NEW q \in Request, Fails(q), Marked({})
    PROVE  FeedInv'
<1>1. TypeOK /\ Open /\ UnderWay(q) /\ request[q].key \in Key
  BY DEF FeedInv, Fails, UnderWay, TypeOK
<1>2. UNCHANGED <<server, user, key, lastFetch, list>> /\ atRisk \subseteq atRisk'
  BY DEF Fails, Marked
<1>3. \A p \in Request : p # q => request'[p] = request[p]
  BY <1>1 DEF Fails, TypeOK
<1>4. \A j \in Key, p \in Request : p # q /\ live[j] = p => live'[j] = p
  BY <1>1 DEF Fails, TypeOK
<1>5. ASSUME UnderWay(q)'
      PROVE  request'[q].since = 0 /\ request'[q].state = "waiting" /\ RequestOK(q)'
  <2> DEFINE waiting == [Free EXCEPT !.state = "waiting", !.key = request[q].key]
  <2>1. request'[q] = waiting /\ live' = live /\ live[request[q].key] = q
        /\ list[request[q].key] = NoList
    BY <1>1, <1>5 DEF Fails, TypeOK, UnderWay, Free
  <2>2. waiting.since = 0 /\ waiting.state = "waiting" /\ waiting.key = request[q].key
    BY DEF Free
  <2>3. Covered(request[q].key, request[q].since)'
    <3>1. \A o \in Object : row'[o].time \in Nat
      BY DEF TypeOK, Row
    <3> QED
      BY <2>1, <2>2, <3>1 DEF Covered
  <2> QED
    BY <1>2, <2>1, <2>2, <2>3 DEF RequestOK
<1>6. list'[key'] # NoList => Covered(key, lastFetch)'
  BY <1>2, CurrentStays
<1>7. \A p \in Request : p # q /\ UnderWay(p) /\ live[request[p].key] = p
          => live'[request[p].key] = p
  BY <1>1, <1>4 DEF TypeOK
<1> QED
  BY <1>1, <1>2, <1>3, <1>5, <1>6, <1>7, InvPage

LEMMA InvRetry ==
    ASSUME FeedInv, TypeOK', NEW q \in Request, Retry(q), Marked(NotAskedFor(request[q].key))
    PROVE  FeedInv'
<1> DEFINE k == request[q].key
<1>1. TypeOK /\ Open /\ UnderWay(q) /\ k \in Key /\ live[k] = q /\ list[k] = NoList
  BY DEF FeedInv, Retry, UnderWay, RequestOK, TypeOK
<1>2. UNCHANGED <<server, user, key, lastFetch, list, live>> /\ atRisk \subseteq atRisk'
  BY DEF Retry, Marked
<1>3. \A p \in Request : p # q => request'[p] = request[p]
  BY <1>1 DEF Retry, TypeOK
<1>4. request'[q] = Asked(k, lastFetch, TRUE)
  BY <1>1 DEF Retry, TypeOK
<1>5. request'[q].key = k /\ request'[q].since = lastFetch /\ request'[q].state = "asked"
  BY <1>4 DEF Asked, Free
<1>6. \A o \in Object : Visible(o)' /\ ReportOf[o] # k /\ row'[o].time < lastFetch
          => \/ row'[o].time \in atRisk'
             \/ list'[k] # NoList /\ list'[k][o] = row'[o].time
  BY <1>1, <1>2, AskingCovers
<1>7. Covered(request[q].key, request[q].since)'
  BY <1>5, <1>6 DEF Covered
<1>8. RequestOK(q)'
  BY <1>1, <1>2, <1>5, <1>7 DEF RequestOK
<1>9. list'[key'] # NoList => Covered(key, lastFetch)'
  BY <1>2, CurrentStays
<1> QED
  BY <1>1, <1>2, <1>3, <1>5, <1>8, <1>9, InvPage

\* A list is told from no list.
LEMMA SomeList == ASSUME NEW f \in [Object -> Nat] PROVE f # NoList
<1>1. PICK o \in Object : TRUE
  BY FeedBounds
<1>2. f[o] \in Nat /\ NoList[o] = -1
  BY DEF NoList
<1> QED
  BY <1>2

\* An answer leaves its list with all that is to be seen now and not at risk, and with
\* nothing of the journey itself.
LEMMA Arrived ==
    ASSUME FeedInv, NEW q \in Request, Arrive(q)
    PROVE  \E new \in [Object -> Nat] :
               /\ list' = [list EXCEPT ![request[q].key] = new]
               /\ \A o \in Object :
                      /\ ReportOf[o] = request[q].key => new[o] = 0
                      /\ Visible(o) /\ ReportOf[o] # request[q].key
                             => row[o].time \in atRisk \/ new[o] = row[o].time
<1> DEFINE k == request[q].key
           new == Merged(k, request[q].answer)
<1>1. request[q].state = "served" /\ UnderWay(q) /\ TypeOK /\ Times /\ OwnOut
  BY DEF Arrive, UnderWay, FeedInv
<1>2. RequestOK(q) /\ k \in Key
  BY <1>1 DEF FeedInv, TypeOK
<1>3. list' = [list EXCEPT ![k] = new]
  BY <1>1, <1>2 DEF Arrive, RequestOK
<1>4. new \in [Object -> Nat]
  BY <1>1, <1>2, AnswerTypes
<1>5. ASSUME NEW o \in Object
      PROVE  /\ ReportOf[o] = k => new[o] = 0
             /\ Visible(o) /\ ReportOf[o] # k => row[o].time \in atRisk \/ new[o] = row[o].time
  <2>1. new[o] = IF list[k] = NoList THEN request[q].answer[o]
                 ELSE IF request[q].answer[o] # 0 THEN request[q].answer[o] ELSE list[k][o]
    BY DEF Merged
  <2> HIDE DEF new
  <2>2. ReportOf[o] = k => new[o] = 0
    BY <1>1, <1>2, <2>1 DEF RequestOK, OwnOut
  <2>3. Visible(o) => row[o].time # 0
    BY <1>1, SeenRows
  <2>4. Visible(o) /\ ReportOf[o] # k => row[o].time \in atRisk \/ new[o] = row[o].time
    BY <1>1, <1>2, <2>1, <2>3 DEF RequestOK
  <2> QED
    BY <2>2, <2>4
<1> HIDE DEF new
<1> QED
  BY <1>3, <1>4, <1>5

LEMMA InvArrive ==
    ASSUME FeedInv, TypeOK', NEW q \in Request, Arrive(q),
           Marked(IF request[q].key = key THEN {} ELSE NotOnList)
    PROVE  FeedInv'
<1> DEFINE k == request[q].key
<1>1. PICK new \in [Object -> Nat] :
          /\ list' = [list EXCEPT ![k] = new]
          /\ \A o \in Object : /\ ReportOf[o] = k => new[o] = 0
                               /\ Visible(o) /\ ReportOf[o] # k
                                      => row[o].time \in atRisk \/ new[o] = row[o].time
  BY Arrived
<1>2. TypeOK /\ Times /\ UnderWay(q) /\ request[q].state = "served" /\ RequestOK(q)
      /\ k \in Key /\ key \in Key /\ list'[k] = new /\ new # NoList
      /\ \A j \in Key : j # k => list'[j] = list[j]
  BY <1>1, SomeList DEF FeedInv, Arrive, UnderWay, TypeOK
<1>3. UNCHANGED <<server, user, key>> /\ Open /\ atRisk \subseteq atRisk'
  BY DEF Arrive, Marked
<1>4. request' = [request EXCEPT ![q] = Free]
      /\ live' = IF live[k] = q THEN [live EXCEPT ![k] = NoRequest] ELSE live
  BY DEF Arrive
<1>5. \A p \in Request : UnderWay(p)' => p # q /\ request'[p] = request[p] /\ UnderWay(p)
  BY <1>2, <1>4 DEF TypeOK, UnderWay, Free
<1>6. Times'
  <2>1. \A o \in Object : unsaved[o] # NoRow => unsaved[o].time \in atRisk
    BY <1>2 DEF Times, AskedFor
  <2> QED
    BY <1>2, <1>3, <2>1 DEF Times, AskedFor, server
<1>7. \A o \in Object : Visible(o)' <=> Visible(o)
  BY <1>3, VisibleStays DEF server, user
<1>8. Covered(key, lastFetch)' \/ list'[key] = NoList
  <2>1. CASE k = key
    BY <1>1, <1>2, <1>3, <1>7, <2>1 DEF Covered, server
  <2>2. CASE k # key
    <3>1. list'[key] = list[key]
      BY <1>2, <2>2
    <3>2. ASSUME list[key] # NoList, NEW o \in Object, Visible(o), row[o].time \notin atRisk'
          PROVE  list[key][o] = row[o].time
      <4>1. row[o].time # 0
        BY <1>2, <3>2, SeenRows
      <4>2. row[o].time \notin NotOnList
        BY <2>2, <3>2, <4>1 DEF Marked
      <4> QED
        BY <3>2, <4>2 DEF NotOnList
    <3> QED
      BY <1>3, <1>7, <3>1, <3>2 DEF Covered, server
  <2> QED
    BY <2>1, <2>2
<1>9. ASSUME NEW p \in Request, UnderWay(p)'
      PROVE  RequestOK(p)'
  <2>1. UnderWay(p) /\ RequestOK(p) /\ request'[p] = request[p] /\ p # q
        /\ request[p].key \in Key
    BY <1>2, <1>5, <1>9 DEF FeedInv, TypeOK
  <2>2. CASE request[p].key = k
    <3>1. Covered(request[p].key, request[p].since)'
      BY <1>1, <1>2, <1>3, <1>7, <2>1, <2>2 DEF Covered, server
    <3>2. request[p].state # "waiting"
      BY <1>2, <2>1, <2>2 DEF RequestOK
    <3>3. ASSUME request[p].state = "served", NEW o \in Object
          PROVE  /\ ReportOf[o] = k => request[p].answer[o] = 0
                 /\ Visible(o)' /\ ReportOf[o] # k =>
                        \/ row'[o].time \in atRisk'
                        \/ request[p].answer[o] = row'[o].time
                        \/ request[p].answer[o] = 0 /\ list'[k][o] = row'[o].time
      BY <1>1, <1>2, <1>3, <1>7, <2>1, <2>2, <3>3 DEF RequestOK, server
    <3> QED
      BY <1>2, <2>1, <2>2, <3>1, <3>2, <3>3 DEF RequestOK
  <2>3. CASE request[p].key # k
    <3>1. list'[request[p].key] = list[request[p].key]
          /\ live'[request[p].key] = live[request[p].key]
      BY <1>2, <1>4, <2>1, <2>3 DEF TypeOK
    <3> QED
      BY <1>2, <1>3, <2>1, <3>1, RequestStays DEF server, user
  <2> QED
    BY <2>2, <2>3
<1>10. Left' /\ OwnOut'
  BY <1>1, <1>2, <1>3 DEF FeedInv, Left, OwnOut, Open, user
<1> QED
  BY <1>3, <1>6, <1>8, <1>9, <1>10 DEF FeedInv

LEMMA InvForget ==
    ASSUME FeedInv, TypeOK', NEW k \in Key, Forget(k), Marked({})
    PROVE  FeedInv'
<1>1. TypeOK /\ key # k /\ \A q \in Request : UnderWay(q) => request[q].key # k
  BY DEF FeedInv, Forget
<1>2. UNCHANGED <<server, user, key, lastFetch, live, request>> /\ list'[k] = NoList
      /\ (\A j \in Key : j # k => list'[j] = list[j]) /\ atRisk \subseteq atRisk'
      /\ lastFetch \in Nat /\ key \in Key
  BY <1>1 DEF Forget, TypeOK, Marked
<1>3. ASSUME list'[key] # NoList
      PROVE  Covered(key, lastFetch)'
  <2>1. Covered(key, lastFetch) /\ list'[key] = list[key]
    BY <1>1, <1>2, <1>3 DEF FeedInv
  <2>2. \A o \in Object : Visible(o)' /\ ReportOf[o] # key /\ row'[o].time < lastFetch
            => \/ row'[o].time \in atRisk'
               \/ list'[key] # NoList /\ list'[key][o] = row'[o].time
    BY <1>2, <2>1, CoveredStays DEF server, user
  <2> QED
    BY <1>2, <2>2 DEF Covered
<1>4. ASSUME NEW q \in Request, UnderWay(q)'
      PROVE  RequestOK(q)'
  <2>1. UnderWay(q) /\ RequestOK(q) /\ list'[request[q].key] = list[request[q].key]
    BY <1>1, <1>2, <1>4 DEF FeedInv, UnderWay, TypeOK
  <2> QED
    BY <1>1, <1>2, <2>1, RequestStays DEF server, user
<1>5. Times'
  BY <1>2 DEF FeedInv, Times, AskedFor, UnderWay, server
<1>6. Left' /\ OwnOut'
  BY <1>2 DEF FeedInv, Left, OwnOut, UnderWay, Open, user
<1> QED
  BY <1>2, <1>3, <1>4, <1>5, <1>6 DEF FeedInv

\* The invariant while the role changes: there is no page to be wrong.
LEMMA InvRole ==
    ASSUME FeedInv, TypeOK', SetRole \/ RoleStep, Marked({})
    PROVE  FeedInv'
<1>1. UNCHANGED server /\ lastFetch' = 0 /\ (\A q \in Request : ~ UnderWay(q)')
      /\ atRisk' = atRisk /\ OwnOut'
  <2>1. CASE SetRole
    BY <2>1 DEF SetRole, UnderWay, Free, Marked, OwnOut
  <2>2. CASE RoleStep
    <3>1. ~ Open /\ UNCHANGED <<server, page>>
      BY <2>2 DEF RoleStep, RemoveFromRoles, AddToRole, UpdateUser, SetRoleFails, Open
    <3> QED
      BY <3>1 DEF FeedInv, Left, OwnOut, page, UnderWay, Marked
  <2> QED
    BY <2>1, <2>2
<1>2. \A o \in Object : row'[o].time \in Nat /\ unsaved'[o].time \in Nat
  BY DEF TypeOK, Row
<1>3. Covered(key, lastFetch)'
  BY <1>1, <1>2 DEF Covered
<1>4. Times'
  BY <1>1, <1>2 DEF FeedInv, Times, AskedFor, server
<1> QED
  BY <1>1, <1>3, <1>4 DEF FeedInv, Left

\* The steps of the history are those of the feed.
LEMMA HistorySteps == HistoryNext => Next
  BY DEF HistoryNext, Next, Server, Page

LEMMA InvNext ==
    ASSUME FeedInv, [HistoryNext]_<<vars, atRisk>>
    PROVE  FeedInv'
<1>1. TypeOK
  BY DEF FeedInv
<1>2. TypeOK'
  BY <1>1, HistorySteps, TypeNext
<1>3. CASE HistoryNext
  <2>1. CASE \E o \in Object : ServerStep(o)
    BY <2>1, InvServer
  <2>2. CASE (Poll /\ Marked(NotAskedFor(key))) \/ (Invalidate /\ Marked({}))
    BY <1>2, <2>2, InvPoll
  <2>3. CASE (SetRole \/ RoleStep) /\ Marked({})
    BY <1>2, <2>3, InvRole
  <2>4. CASE \E k \in Key : (SetKey(k) \/ Forget(k)) /\ Marked({})
    BY <1>2, <2>4, InvSetKey, InvForget
  <2>5. ASSUME NEW q \in Request,
               \/ GetObjects(q) /\ Marked(Uncommitted)
               \/ Arrive(q) /\ Marked(IF request[q].key = key THEN {} ELSE NotOnList)
               \/ Fails(q) /\ Marked({})
               \/ Retry(q) /\ Marked(NotAskedFor(request[q].key))
        PROVE  FeedInv'
    BY <1>2, <2>5, InvGetObjects, InvArrive, InvFails, InvRetry
  <2> QED
    BY <1>3, <2>1, <2>2, <2>3, <2>4, <2>5 DEF HistoryNext, ServerStep
<1>4. CASE UNCHANGED <<vars, atRisk>>
  <2>1. UNCHANGED <<server, user, page, changes, atRisk>>
    BY <1>4 DEF vars
  <2>2. /\ Times' /\ Left' /\ OwnOut'
        /\ \A q \in Request : UnderWay(q)' <=> UnderWay(q)
    BY <2>1 DEF FeedInv, Times, AskedFor, Left, OwnOut, Open, UnderWay, server, user, page
  <2>3. list'[key'] # NoList => Covered(key, lastFetch)'
    BY <2>1, CurrentStays DEF page
  <2>4. \A q \in Request : UnderWay(q)' => RequestOK(q)'
    BY <1>1, <2>1, <2>2, RequestStays DEF FeedInv, server, user, page
  <2> QED
    BY <1>2, <2>2, <2>3, <2>4 DEF FeedInv
<1> QED
  BY <1>3, <1>4

\* The history variable is only watching: a behaviour with it is one of the feed.
THEOREM FeedHistory == HistorySpec => Spec
<1>1. HistoryInit => Init
  BY DEF HistoryInit
<1>2. [HistoryNext]_<<vars, atRisk>> => [Next]_vars
  BY HistorySteps
<1> QED
  BY <1>1, <1>2, PTL DEF HistorySpec, Spec

\* Asking for what was written since the last answer misses nothing but rows that
\* were written at a bad moment.
THEOREM FeedMissesNothing == HistorySpec => []NothingMissed
<1>1. FeedInv /\ [HistoryNext]_<<vars, atRisk>> => FeedInv'
  BY InvNext
<1>2. FeedInv => NothingMissed
  BY DEF FeedInv, NothingMissed
<1> QED
  BY <1>1, <1>2, InvInit, PTL DEF HistorySpec

-----------------------------------------------------------------------------
(* The role. *)

\* How far each step of SetRole got.
RolesInv ==
    /\ setting.step = "done" => roles = {roleId}
    /\ setting.step = "add" => roles = {}
    /\ setting.step = "update" => roles = {setting.role}
    /\ \A r, s \in roles : r = s

\* A user has one role at most, and the column's after a SetRole that went through.
THEOREM RolesAgreeAlways == Spec => []RolesAgree
<1>1. Init => RolesInv
  BY DEF Init, RolesInv
<1>2. ASSUME TypeOK, RolesInv, [Next]_vars PROVE RolesInv'
  <2>1. CASE Server
    BY <1>2, <2>1 DEF RolesInv, Server, SaveChanges, Commit, RollbackOrDelete, user
  <2>2. CASE Page
    <3>1. UNCHANGED user
      BY <2>2 DEF Page, Poll, Invalidate, SetKey, Forget, GetObjects, Arrive, Fails, Retry
    <3> QED
      BY <1>2, <3>1 DEF RolesInv, user
  <2>3. CASE SetRole
    BY <1>2, <2>3 DEF RolesInv, SetRole
  <2>4. CASE RoleStep
    <3>1. setting \in [step : Step, role : Role]
      BY <1>2 DEF TypeOK
    <3>2. CASE RemoveFromRoles
      BY <1>2, <3>1, <3>2 DEF RolesInv, RemoveFromRoles
    <3>3. CASE AddToRole
      BY <1>2, <3>1, <3>3 DEF RolesInv, AddToRole
    <3>4. CASE UpdateUser
      BY <1>2, <3>1, <3>4 DEF RolesInv, UpdateUser
    <3>5. CASE SetRoleFails
      BY <1>2, <3>5 DEF RolesInv, SetRoleFails
    <3> QED
      BY <2>4, <3>2, <3>3, <3>4, <3>5 DEF RoleStep
  <2>5. CASE UNCHANGED vars
    BY <1>2, <2>5 DEF RolesInv, vars, user
  <2> QED
    BY <1>2, <2>1, <2>2, <2>3, <2>4, <2>5 DEF Next
<1>3. RolesInv => RolesAgree
  BY DEF RolesInv, RolesAgree
<1> QED
  BY <1>1, <1>2, <1>3, FeedTypeCorrect, PTL DEF Spec

-----------------------------------------------------------------------------
(* Refinement. *)

\* Each list is as good as one that is fetched anew each time, for rows not at risk.
THEOREM FeedImplementsCopies == HistorySpec => ListsAreCopies
<1>1. HistoryInit => Copies!Init
  BY DEF HistoryInit, Init, Copies!Init
<1>2. ASSUME FeedInv, [HistoryNext]_<<vars, atRisk>>
      PROVE  [Copies!Next]_<<[k \in Key |-> Seen(k)], list, atRisk>>
  <2> USE DEF Copies!Next
  <2>1. CASE UNCHANGED list
    BY <2>1 DEF Copies!Change
  <2>2. ASSUME NEW q \in Request, Arrive(q)
        PROVE  \E k \in Key : Copies!CatchUp(k)
    <3> DEFINE k == request[q].key
    <3>1. PICK new \in [Object -> Nat] :
              /\ list' = [list EXCEPT ![k] = new]
              /\ \A o \in Object : /\ ReportOf[o] = k => new[o] = 0
                                   /\ Visible(o) /\ ReportOf[o] # k
                                          => row[o].time \in atRisk \/ new[o] = row[o].time
      BY <1>2, <2>2, Arrived
    <3>2. k \in Key /\ list'[k] = new /\ new # NoList
      BY <1>2, <3>1, SomeList DEF FeedInv, TypeOK
    <3>3. \A j \in Key : Seen(j)' = Seen(j)
      BY <2>2 DEF Arrive, Seen, Visible, server, user
    <3>4. \A o \in Object : Seen(k)[o] \in {0, new[o]} \cup atRisk
      BY <3>1 DEF Seen
    <3>5. Copies!Fresh(k, list'[k])
      BY <3>1, <3>2, <3>4 DEF Copies!Fresh
    <3>6. list' = [list EXCEPT ![k] = list'[k]]
      BY <3>1, <3>2
    <3> QED
      BY <3>2, <3>3, <3>5, <3>6 DEF Copies!CatchUp
  <2>3. ASSUME NEW k \in Key, Forget(k)
        PROVE  Copies!Forget(k)
    BY <2>3 DEF Forget, Copies!Forget, Seen, Visible, server, user
  <2>4. CASE SetRole
    BY <2>4 DEF SetRole, Copies!Leave, Seen, Visible, server
  <2>5. CASE Server
    <3>1. UNCHANGED list
      BY <2>5 DEF Server, SaveChanges, Commit, RollbackOrDelete, page
    <3> QED
      BY <2>1, <3>1
  <2>6. CASE RoleStep
    <3>1. UNCHANGED list
      BY <2>6 DEF RoleStep, RemoveFromRoles, AddToRole, UpdateUser, SetRoleFails, page
    <3> QED
      BY <2>1, <3>1
  <2>7. CASE Page
    <3>1. UNCHANGED list \/ (\E q \in Request : Arrive(q)) \/ (\E k \in Key : Forget(k))
      BY <2>7 DEF Page, Poll, Invalidate, SetKey, GetObjects, Fails, Retry
    <3> QED
      BY <2>1, <2>2, <2>3, <3>1
  <2>8. CASE UNCHANGED <<vars, atRisk>>
    BY <2>1, <2>8 DEF vars, page
  <2> QED
    BY <1>2, <2>4, <2>5, <2>6, <2>7, <2>8, HistorySteps DEF Next
<1>3. FeedInv /\ [HistoryNext]_<<vars, atRisk>> => FeedInv'
  BY InvNext
<1> QED
  BY <1>1, <1>2, <1>3, InvInit, PTL DEF HistorySpec, ListsAreCopies, Copies!Spec
=============================================================================
