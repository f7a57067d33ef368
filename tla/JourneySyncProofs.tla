-------------------------- MODULE JourneySyncProofs --------------------------
(***************************************************************************)
(* The page and the server together, for any number of objects, reports and *)
(* calls: the page does what JourneyClient does; types; ids never go to the *)
(* wrong object; and no object is lost while the summary is left alone.     *)
(***************************************************************************)
EXTENDS JourneySync, TLAPS

-----------------------------------------------------------------------------
(* Refinement. *)

\* Each step of this server is one a server that answers anything could take.
LEMMA ServerIsAnyServer == Server => Client!AnyServer
<1> SUFFICES ASSUME Server PROVE Client!AnyServer
  OBVIOUS
<1>1. ASSUME NEW l \in Local, ServeSync(l) PROVE Client!AnyServer
  <2>1. PICK rp \in Report, o \in Object :
           sync' = [sync EXCEPT ![l] = [state |-> "answered", journey |-> rp,
                                        object |-> o]]
    BY <1>1 DEF ServeSync, DraftFor
  <2>2. sync[l].state = "asked" /\ UNCHANGED <<page, submit>>
    BY <1>1 DEF ServeSync
  <2> QED
    BY <2>1, <2>2 DEF page, Client!AnyServer, Client!journeys, Client!placing,
                      Client!objects
<1>2. ASSUME NEW n \in 1..MaxSubmits, ServeSubmit(n) PROVE Client!AnyServer
  <2>1. /\ submit[n].state = "asked"
        /\ submit' = [submit EXCEPT ![n] = Client!SubmitIs("accepted")]
        /\ UNCHANGED <<page, sync>>
    BY <1>2 DEF ServeSubmit
  <2> QED
    BY <2>1 DEF page, Client!AnyServer, Client!journeys, Client!placing, Client!objects
<1>3. ASSUME Refuse PROVE Client!AnyServer
  BY <1>3 DEF Refuse, page, Client!AnyServer, Client!journeys, Client!placing,
              Client!objects
<1> QED
  BY <1>1, <1>2, <1>3 DEF Server

\* A step of the whole is one of the page or of a server that answers anything.
LEMMA ClientStep == [Next]_vars => [Client!Next]_Client!vars
<1>1. PageStep => Client!Next
  BY DEF PageStep, Client!Next
<1>2. Server => Client!Next
  BY ServerIsAnyServer DEF Client!Next
<1>3. UNCHANGED vars \/ Review => UNCHANGED Client!vars
  BY DEF vars, Review, page, Client!vars, Client!journeys, Client!placing, Client!objects,
         Client!calls
<1> QED
  BY <1>1, <1>2, <1>3 DEF Next

\* The page behaves with this server as with one that answers anything, so that
\* what is proved of JourneyClient holds here too.
THEOREM ImplementsClient == Spec => Client!Spec
<1>1. Init => Client!Init
  BY DEF Init
<1> QED
  BY <1>1, ClientStep, PTL DEF Spec, Client!Spec

-----------------------------------------------------------------------------
(* Types. *)

\* What is assumed of the constants of the page.
LEMMA PageConstants ==
    /\ Client!NoId \notin Report /\ Client!NoId \notin Object
    /\ Client!NoObject \notin Local /\ "null" \notin Report
    /\ MaxPoints \in Nat /\ MaxSubmits \in Nat
  BY ClientAssumptions DEF Client!ClientKeys, Client!ClientBounds

\* A journey that got another id or more objects is still a journey, and none
\* of them is Null.
LEMMA JourneyKept ==
    ASSUME NEW j \in Client!Journey, NEW id \in Report \cup {Client!NoId}, NEW l \in Local
    PROVE  /\ j # Client!Null
           /\ [j EXCEPT !.id = id] \in Client!Journey
           /\ [j EXCEPT !.objects = @ \cup {l}] \in Client!Journey
<1>1. j.id # "null" /\ Client!Null.id = "null"
  BY PageConstants DEF Client!Journey, Client!Null, Client!NoId
<1>2. [j EXCEPT !.id = id] \in Client!Journey
  BY DEF Client!Journey
<1>3. [j EXCEPT !.objects = @ \cup {l}] \in Client!Journey
  BY DEF Client!Journey
<1> QED
  BY <1>1, <1>2, <1>3

\* What is sent of a journey has the type of a submission's entries.
LEMMA EntriesType ==
    ASSUME Client!TypeOK, NEW j \in Client!Journey
    PROVE  Client!EntriesOf(j) \in Client!Entries
  BY DEF Client!TypeOK, Client!Journey, Client!Entries, Client!EntriesOf

\* The calls that carry no data.
LEMMA BareCalls ==
    /\ \A state \in {"none", "asked", "answered", "refused", "over"} :
           Client!SyncIs(state) \in Client!SyncCall
    /\ \A state \in {"none", "asked", "accepted", "refused", "over"} :
           Client!SubmitIs(state) \in Client!SubmitCall
  BY
     DEF Client!SyncIs, Client!SubmitIs, Client!SyncCall, Client!SubmitCall,
         Client!NoEntries, Client!Entries

\* Each step keeps the types.
LEMMA TypeStep == Client!TypeOK /\ [Client!Next]_Client!vars => Client!TypeOK'
<1> SUFFICES ASSUME Client!TypeOK, [Client!Next]_Client!vars PROVE Client!TypeOK'
  OBVIOUS
<1> USE DEF Client!TypeOK
<1>1. CASE Client!StartJourney
  BY <1>1
     DEF Client!StartJourney, Client!placing, Client!objects, Client!calls,
         Client!Journey
<1>2. CASE Client!SetPlaceMode
  BY <1>2 DEF Client!SetPlaceMode, Client!journeys, Client!objects, Client!calls
<1>3. CASE Client!AddPoint
  <2>1. currentObjectPoints' \in 0..MaxPoints
    BY <1>3, PageConstants DEF Client!AddPoint
  <2> QED
    BY <1>3, <2>1 DEF Client!AddPoint, Client!journeys, Client!objects, Client!calls
<1>4. CASE Client!HandleFinishPlace
  BY <1>4 DEF Client!HandleFinishPlace, Client!journeys, Client!objects, Client!calls
<1>5. CASE Client!HandleCancelPlace
  BY <1>5, PageConstants
     DEF Client!HandleCancelPlace, Client!journeys, Client!objects, Client!calls
<1>6. CASE Client!HandleCancelTypeSelect
  <2>1. showTypeSelector' \in BOOLEAN
    BY <1>6, Zenon DEF Client!HandleCancelTypeSelect
  <2>2. currentObjectPoints' \in 0..MaxPoints
    BY <1>6, PageConstants DEF Client!HandleCancelTypeSelect
  <2> QED
    BY <1>6, <2>1, <2>2
       DEF Client!HandleCancelTypeSelect, Client!journeys, Client!objects,
           Client!calls
<1>7. CASE Client!HandleTypeSelect
  <2>1. PICK l \in Local \ placed, onLine \in BOOLEAN :
           /\ placed' = placed \cup {l}
           /\ currentJourney' = [currentJourney EXCEPT !.objects = @ \cup {l}]
           /\ IF onLine
              THEN /\ sync' = [sync EXCEPT ![l] = [Client!SyncIs("asked") EXCEPT
                                                      !.journey = currentJourney.id]]
                   /\ syncing' = l
              ELSE UNCHANGED <<sync, syncing>>
    BY <1>7 DEF Client!HandleTypeSelect
  <2>2. currentJourney \in Client!Journey
    BY <1>7 DEF Client!HandleTypeSelect
  <2>3. currentJourney' \in Client!Journey
    BY <2>1, <2>2, JourneyKept
  <2>4. [Client!SyncIs("asked") EXCEPT !.journey = currentJourney.id] \in Client!SyncCall
    BY <2>2 DEF Client!SyncIs, Client!SyncCall, Client!Journey
  <2>5. sync' \in [Local -> Client!SyncCall] /\ syncing' \in Local \cup {Client!NoObject}
    BY <2>1, <2>4
  <2>6. showTypeSelector' \in BOOLEAN
    BY <1>7, Zenon DEF Client!HandleTypeSelect
  <2>7. currentObjectPoints' \in 0..MaxPoints
    BY <1>7, PageConstants DEF Client!HandleTypeSelect
  <2> QED
    BY <1>7, <2>1, <2>3, <2>5, <2>6, <2>7 DEF Client!HandleTypeSelect
<1>8. CASE Client!DeleteStore
  BY <1>8, PageConstants DEF Client!DeleteStore, Client!objects, Client!calls
<1>9. CASE Client!EndJourney
  BY <1>9, PageConstants DEF Client!EndJourney, Client!objects, Client!calls
<1>10. CASE Client!HandleCloseSummary
  BY <1>10 DEF Client!HandleCloseSummary, Client!placing, Client!objects, Client!calls
<1>11. CASE Client!HandleSubmitSummary
  <2>1. finishedJourney \in Client!Journey
    BY <1>11 DEF Client!HandleSubmitSummary
  <2>2. [state |-> "asked", journey |-> finishedJourney.id,
         entries |-> Client!EntriesOf(finishedJourney)] \in Client!SubmitCall
    BY <2>1, EntriesType DEF Client!SubmitCall, Client!Journey
  <2> QED
    BY <1>11, <2>2
       DEF Client!HandleSubmitSummary, Client!journeys, Client!placing,
           Client!objects
<1>12. CASE Client!Reload
  <2>1. showTypeSelector' \in BOOLEAN
    BY <1>12, Zenon DEF Client!Reload
  <2>2. submitting' \in 0..MaxSubmits
    BY <1>12, PageConstants DEF Client!Reload
  <2> QED
    BY <1>12, <2>1, <2>2 DEF Client!Reload, Client!journeys, Client!objects
<1>13. CASE \E l \in Local : Client!HandleDelete(l) \/ Client!HandleRestore(l) \/ Client!HandleSaveObject(l)
  BY <1>13
     DEF Client!HandleDelete, Client!HandleRestore, Client!HandleSaveObject,
         Client!UpdateObject,
               Client!journeys, Client!placing, Client!calls
<1>14. CASE Client!AnyServer
  <2>1. sync' \in [Local -> Client!SyncCall]
    <3>1. \A rp \in Report, o \in Object :
             [state |-> "answered", journey |-> rp, object |-> o] \in Client!SyncCall
      BY DEF Client!SyncCall
    <3> QED
      BY <1>14, <3>1, BareCalls DEF Client!AnyServer
  <2>2. submit' \in [1..MaxSubmits -> Client!SubmitCall]
    BY <1>14, BareCalls DEF Client!AnyServer
  <2> QED
    BY <1>14, <2>1, <2>2
       DEF Client!AnyServer, Client!journeys, Client!placing, Client!objects
<1>15. ASSUME NEW l \in Local, Client!SyncAnswered(l) PROVE Client!TypeOK'
  <2>1. sync[l].journey \in Report \cup {Client!NoId} /\ sync[l].object \in Object \cup {Client!NoId}
    BY DEF Client!SyncCall
  <2>2. currentJourney' \in Client!Journey \cup {Client!Null}
    <3>1. CASE currentJourney = Client!Null
      BY <1>15, <3>1 DEF Client!SyncAnswered
    <3>2. CASE currentJourney # Client!Null
      <4>1. currentJourney' = [currentJourney EXCEPT !.id = sync[l].journey]
        BY <1>15, <3>2 DEF Client!SyncAnswered
      <4> QED
        BY <2>1, <3>2, <4>1, JourneyKept
    <3> QED
      BY <3>1, <3>2
  <2>3. serverId' \in [Local -> Object \cup {Client!NoId}]
    BY <1>15, <2>1 DEF Client!SyncAnswered
  <2>4. sync' \in [Local -> Client!SyncCall] /\ syncing' \in Local \cup {Client!NoObject}
    BY <1>15, BareCalls DEF Client!SyncAnswered
  <2> QED
    BY <1>15, <2>2, <2>3, <2>4 DEF Client!SyncAnswered, Client!placing
<1>16. ASSUME NEW l \in Local, Client!SyncFailed(l) \/ Client!SyncIgnored(l) PROVE Client!TypeOK'
  BY <1>16, BareCalls
     DEF Client!SyncFailed, Client!SyncIgnored, Client!journeys, Client!placing,
         Client!objects
<1>17. ASSUME NEW n \in 1..MaxSubmits,
              Client!SubmitSucceeded(n) \/ Client!SubmitFailed(n) \/ Client!SubmitIgnored(n)
       PROVE  Client!TypeOK'
  BY <1>17, BareCalls, PageConstants
    
        DEF Client!SubmitSucceeded, Client!SubmitFailed, Client!SubmitIgnored,
            Client!journeys, Client!placing, Client!objects
<1>18. CASE UNCHANGED Client!vars
  BY <1>18
     DEF Client!vars, Client!journeys, Client!placing, Client!objects,
         Client!calls
<1> QED
  BY <1>1, <1>2, <1>3, <1>4, <1>5, <1>6, <1>7, <1>8, <1>9, <1>10, <1>11, <1>12,
     <1>13, <1>14, <1>15, <1>16, <1>17, <1>18
        DEF Client!Next, Client!User, Client!Answer

\* Only the server makes or removes rows.
LEMMA RowSteps ==
    [Next]_vars => \/ UNCHANGED <<report, object, origin>>
                   \/ \E l \in Local : ServeSync(l)
                   \/ \E n \in 1..MaxSubmits : ServeSubmit(n)
                   \/ Review
  BY DEF Next, PageStep, Server, Refuse, vars

\* What a review changes: a verdict is given to a row, and the row's report keeps its
\* status or is decided.
LEMMA ReviewEffect ==
    ASSUME TypeOK, Review
    PROVE  /\ UNCHANGED <<page, sync, submit, origin>>
           /\ object' \in [Object -> ObjectRow]
           /\ \A o \in Object : /\ object'[o].report = object[o].report
                                /\ Exists(o)' <=> Exists(o)
                                /\ object'[o] = NoRow <=> object[o] = NoRow
           /\ report' \in [Report -> ReportStatus \cup {"none"}]
           /\ \A rp \in Report : \/ report'[rp] = report[rp]
                                 \/ report[rp] \in ReviewOf /\ report'[rp] \in Decided
<1> USE DEF TypeOK
<1>1. PICK o \in Object, verdict \in Decided :
         /\ Exists(o) /\ report[object[o].report] \in ReviewOf
         /\ object' = [object EXCEPT ![o].status = verdict]
         /\ report' = [report EXCEPT ![object[o].report] =
                          Outcome([StatusesIn(object[o].report) EXCEPT ![o] = verdict], @)]
         /\ UNCHANGED <<page, sync, submit, origin>>
  BY DEF Review
<1>2. /\ object'[o] = [object[o] EXCEPT !.status = verdict]
      /\ \A p \in Object \ {o} : object'[p] = object[p]
      /\ verdict \in ObjectStatus /\ verdict \in Decided
  BY <1>1 DEF Decided, ObjectStatus
<1>3. object'[o] \in ObjectRow /\ object'[o].report = object[o].report
      /\ object'[o].status = verdict
  BY <1>2 DEF ObjectRow
<1>4. object[o] # NoRow /\ object'[o] # NoRow
  BY <1>1, <1>3, <1>2 DEF Exists, NoRow, ObjectStatus
<1>5. \A statuses, current : Outcome(statuses, current) \in Decided \cup {current}
  BY DEF Outcome, Decided
<1>6. \A rp \in Report : \/ report'[rp] = report[rp]
                         \/ report[rp] \in ReviewOf /\ report'[rp] \in Decided
  BY <1>1, <1>5
<1>7. report' \in [Report -> ReportStatus \cup {"none"}]
  <2>1. report' = [rp \in Report |-> report'[rp]]
    BY <1>1
  <2>2. \A rp \in Report : report'[rp] \in ReportStatus \cup {"none"}
    BY <1>6 DEF Decided, ReportStatus
  <2> QED
    BY <2>1, <2>2
<1>8. object' \in [Object -> ObjectRow]
  BY <1>1, <1>2, <1>3
<1>9. \A p \in Object : /\ object'[p].report = object[p].report
                        /\ Exists(p)' <=> Exists(p)
                        /\ object'[p] = NoRow <=> object[p] = NoRow
  <2>1. ASSUME NEW p \in Object
        PROVE  /\ object'[p].report = object[p].report
               /\ object'[p].status \in ObjectStatus <=> object[p].status \in ObjectStatus
               /\ object'[p] = NoRow <=> object[p] = NoRow
    <3>1. CASE p = o
      BY <1>1, <1>2, <1>3, <1>4, <3>1 DEF Exists
    <3>2. CASE p # o
      BY <1>2, <3>2
    <3> QED
      BY <3>1, <3>2
  <2> QED
    BY <2>1 DEF Exists
<1> QED
  BY <1>1, <1>6, <1>7, <1>8, <1>9

\* The rows the server makes and removes are rows, made for objects of the page.
LEMMA TablesStep ==
    ASSUME TypeOK, [Next]_vars
    PROVE  /\ report' \in [Report -> ReportStatus \cup {"none"}]
           /\ object' \in [Object -> ObjectRow]
           /\ origin' \in [Object -> Local \cup {NoOrigin}]
<1> USE DEF TypeOK
<1>1. ASSUME NEW rp \in Report
      PROVE  /\ [report |-> rp, status |-> "draft"] \in ObjectRow
             /\ \A o \in Object : [object[o] EXCEPT !.status = "deleted"] \in ObjectRow
  BY DEF ObjectRow, ObjectStatus
<1>2. ASSUME NEW l \in Local, ServeSync(l)
      PROVE  /\ report' \in [Report -> ReportStatus \cup {"none"}]
             /\ object' \in [Object -> ObjectRow]
             /\ origin' \in [Object -> Local \cup {NoOrigin}]
  BY <1>1, <1>2 DEF ServeSync, DraftFor, ReportStatus
<1>3. ASSUME NEW n \in 1..MaxSubmits, ServeSubmit(n)
      PROVE  /\ report' \in [Report -> ReportStatus \cup {"none"}]
             /\ object' \in [Object -> ObjectRow]
             /\ origin' \in [Object -> Local \cup {NoOrigin}]
  <2> DEFINE rp == submit[n].journey
             entries == submit[n].entries
             removed == {entries.ids[l] : l \in {k \in entries.dropped :
                                                    Found(k, rp, entries)}}
             new == Unknown(rp, entries)
  <2>1. rp \in Report /\ report' = [report EXCEPT ![rp] = "submitted"]
    BY <1>3 DEF ServeSubmit
  <2>2. new \subseteq Local
    BY DEF Unknown, Client!TypeOK, Client!SubmitCall, Client!Entries
  <2>3. PICK key \in [new -> {o \in Object : object[o] = NoRow}] :
           /\ object' = [o \in Object |->
                  IF o \in removed THEN [object[o] EXCEPT !.status = "deleted"]
                  ELSE IF \E l \in new : key[l] = o
                       THEN [report |-> rp, status |-> "draft"]
                       ELSE object[o]]
           /\ origin' = [o \in Object |->
                  IF \E l \in new : key[l] = o THEN CHOOSE l \in new : key[l] = o
                  ELSE origin[o]]
    BY <1>3 DEF ServeSubmit
  <2> HIDE DEF rp, removed, new
  <2>4. object' \in [Object -> ObjectRow]
    BY <1>1, <2>1, <2>3
  <2>5. origin' \in [Object -> Local \cup {NoOrigin}]
    <3>1. ASSUME NEW o \in Object, \E l \in new : key[l] = o
          PROVE  (CHOOSE l \in new : key[l] = o) \in Local
      BY <2>2, <3>1
    <3> QED
      BY <2>3, <3>1
  <2> QED
    BY <2>1, <2>4, <2>5 DEF ReportStatus
<1>4. CASE Review
  BY <1>4, ReviewEffect
<1> QED
  BY <1>2, <1>3, <1>4, RowSteps

\* The page begins with nothing, the tables too.
LEMMA TypesBegin == Init => TypeOK
<1> SUFFICES ASSUME Init PROVE TypeOK
  OBVIOUS
<1>1. showTypeSelector \in BOOLEAN
  BY Zenon DEF Init, Client!Init
<1>2. 0 \in 0..MaxPoints /\ 0 \in 0..MaxSubmits
  BY PageConstants
<1>3. /\ sync \in [Local -> Client!SyncCall]
      /\ submit \in [1..MaxSubmits -> Client!SubmitCall]
  BY BareCalls DEF Init, Client!Init
<1>4. Client!TypeOK
  BY <1>1, <1>2, <1>3 DEF Init, Client!Init, Client!TypeOK
<1>5. NoRow \in ObjectRow
  BY DEF NoRow, ObjectRow
<1> QED
  BY <1>4, <1>5 DEF Init, TypeOK

\* Each step keeps the types of the page and of the tables.
LEMMA TypesStay == TypeOK /\ [Next]_vars => TypeOK'
<1> SUFFICES ASSUME TypeOK, [Next]_vars PROVE TypeOK'
  OBVIOUS
<1>1. Client!TypeOK'
  BY ClientStep, TypeStep DEF TypeOK
<1> QED
  BY <1>1, TablesStep DEF TypeOK

\* The page, its calls and the tables keep their types, whatever the user does, however
\* late the answers are and whether they come at all.
THEOREM SyncTypeCorrect == Spec => []TypeOK
  BY TypesBegin, TypesStay, PTL DEF Spec

-----------------------------------------------------------------------------
(* The right ids. *)

\* The types the argument needs.
Typed ==
    /\ serverId \in [Local -> Object \cup {NoId}]
    /\ sync = [l \in Local |-> sync[l]]
    /\ object \in [Object -> ObjectRow]
    /\ origin = [o \in Object |-> origin[o]]

\* An answer that is under way has the id of a row made for its object.
AnswersRight ==
    \A l \in Local : sync[l].state = "answered" =>
        sync[l].object \in Object /\ origin[sync[l].object] = l

\* A key that is still free was made for no object.
FreeKeys == \A o \in Object : object[o] = NoRow => origin[o] = NoOrigin

\* RightIds is not inductive: an id the page has must not be given away again,
\* and the answers on their way must be right too.
Ids == Typed /\ RightIds /\ AnswersRight /\ FreeKeys

\* The calls without data are in the state they are named after.
LEMMA CallStates ==
    /\ \A state : Client!SyncIs(state).state = state
    /\ \A journey : [Client!SyncIs("asked") EXCEPT !.journey = journey].state = "asked"
  BY DEF Client!SyncIs

\* The page changes an id or a call: to an answered call's id, or to a call that
\* has no answer.
LEMMA PageEffect ==
    ASSUME PageStep
    PROVE  /\ UNCHANGED <<object, origin>>
           /\ \/ UNCHANGED <<serverId, sync>>
              \/ UNCHANGED serverId /\ \E l \in Local : \E call :
                     sync' = [sync EXCEPT ![l] = call] /\ call.state # "answered"
              \/ \E l \in Local :
                     /\ sync[l].state = "answered"
                     /\ sync' = [sync EXCEPT ![l] = Client!SyncIs("over")]
                     /\ \/ UNCHANGED serverId
                        \/ serverId' = [serverId EXCEPT ![l] = sync[l].object]
<1> DEFINE Quiet == UNCHANGED <<serverId, sync>>
           Call == UNCHANGED serverId /\ \E l \in Local : \E call :
                     sync' = [sync EXCEPT ![l] = call] /\ call.state # "answered"
           Answered == \E l \in Local :
                     /\ sync[l].state = "answered"
                     /\ sync' = [sync EXCEPT ![l] = Client!SyncIs("over")]
                     /\ \/ UNCHANGED serverId
                        \/ serverId' = [serverId EXCEPT ![l] = sync[l].object]
<1>1. CASE Client!HandleTypeSelect
  <2>1. PICK l \in Local, onLine \in BOOLEAN :
           IF onLine
           THEN sync' = [sync EXCEPT ![l] = [Client!SyncIs("asked") EXCEPT
                                                !.journey = currentJourney.id]]
           ELSE UNCHANGED sync
    BY <1>1 DEF Client!HandleTypeSelect
  <2>2. UNCHANGED serverId
    BY <1>1 DEF Client!HandleTypeSelect
  <2>3. Quiet \/ Call
    BY <2>1, <2>2, CallStates
  <2> QED
    BY <2>3 DEF PageStep
<1>2. ASSUME NEW l \in Local, Client!SyncAnswered(l) PROVE Answered
  BY <1>2 DEF Client!SyncAnswered
<1>3. ASSUME NEW l \in Local, Client!SyncFailed(l) \/ Client!SyncIgnored(l)
      PROVE  Quiet \/ Call
  <2>1. UNCHANGED serverId
    BY <1>3 DEF Client!SyncFailed, Client!SyncIgnored, Client!objects
  <2>2. UNCHANGED sync \/ sync' = [sync EXCEPT ![l] = Client!SyncIs("over")]
    BY <1>3 DEF Client!SyncFailed, Client!SyncIgnored
  <2> QED
    BY <2>1, <2>2, CallStates
<1>4. \/ UNCHANGED <<serverId, sync>>
      \/ Client!HandleTypeSelect
      \/ \E l \in Local : \/ Client!SyncAnswered(l) \/ Client!SyncFailed(l)
                           \/ Client!SyncIgnored(l)
  BY DEF PageStep, Client!User, Client!Answer, Client!StartJourney, Client!SetPlaceMode,
         Client!AddPoint, Client!HandleFinishPlace, Client!HandleCancelPlace,
         Client!HandleCancelTypeSelect, Client!DeleteStore, Client!EndJourney,
         Client!HandleCloseSummary, Client!HandleSubmitSummary, Client!Reload,
         Client!HandleDelete, Client!HandleRestore, Client!HandleSaveObject,
         Client!UpdateObject, Client!SubmitSucceeded, Client!SubmitFailed,
         Client!SubmitIgnored, Client!objects, Client!calls
<1> QED
  BY <1>1, <1>2, <1>3, <1>4 DEF PageStep

\* A page step keeps Ids: what it learns from an answer is right.
LEMMA PageKeepsIds ==
    ASSUME Ids, PageStep
    PROVE  Ids'
<1>1. UNCHANGED <<object, origin>>
  BY PageEffect
<1>2. FreeKeys'
  BY <1>1 DEF Ids, FreeKeys
<1>3. CASE UNCHANGED <<serverId, sync>>
  BY <1>1, <1>2, <1>3 DEF Ids, Typed, RightIds, AnswersRight
<1>4. ASSUME UNCHANGED serverId, NEW l \in Local, NEW call,
             sync' = [sync EXCEPT ![l] = call], call.state # "answered"
      PROVE  Ids'
  <2>1. Typed' /\ RightIds'
    BY <1>1, <1>4 DEF Ids, Typed, RightIds
  <2>2. AnswersRight'
    BY <1>1, <1>4 DEF Ids, Typed, AnswersRight
  <2> QED
    BY <1>2, <2>1, <2>2 DEF Ids
<1>5. ASSUME NEW l \in Local, sync[l].state = "answered",
             sync' = [sync EXCEPT ![l] = Client!SyncIs("over")],
             \/ UNCHANGED serverId
             \/ serverId' = [serverId EXCEPT ![l] = sync[l].object]
      PROVE  Ids'
  <2>1. sync[l].object \in Object /\ origin[sync[l].object] = l
    BY <1>5 DEF Ids, AnswersRight
  <2>2. Typed' /\ RightIds'
    BY <1>1, <1>5, <2>1 DEF Ids, Typed, RightIds
  <2>3. AnswersRight'
    <3>1. Client!SyncIs("over").state # "answered"
      BY CallStates
    <3> QED
      BY <1>1, <1>5, <3>1 DEF Ids, Typed, AnswersRight
  <2> QED
    BY <1>2, <2>2, <2>3 DEF Ids
<1> QED
  BY <1>3, <1>4, <1>5, PageEffect

\* New rows take free keys, which no object of the page knows or is about to.
LEMMA NewRowsKeepIds ==
    ASSUME Ids, UNCHANGED serverId,
           object' \in [Object -> ObjectRow],
           origin' = [o \in Object |-> origin'[o]],
           \A o \in Object : origin'[o] = origin[o] \/ object[o] = NoRow,
           \A o \in Object : object'[o] = NoRow
               => object[o] = NoRow /\ origin'[o] = origin[o],
           sync' = [l \in Local |-> sync'[l]],
           \A l \in Local : sync'[l] = sync[l] \/ sync'[l].state # "answered"
               \/ (sync'[l].object \in Object /\ origin'[sync'[l].object] = l)
    PROVE  Ids'
<1>1. Typed'
  BY DEF Ids, Typed
<1>2. \A o \in Object : origin[o] \in Local => origin'[o] = origin[o]
  BY OriginAssumption DEF Ids, FreeKeys
<1>3. RightIds'
  BY <1>2 DEF Ids, RightIds
<1>4. AnswersRight'
  BY <1>2 DEF Ids, AnswersRight
<1>5. FreeKeys'
  BY DEF Ids, FreeKeys
<1> QED
  BY <1>1, <1>3, <1>4, <1>5 DEF Ids

\* The row a SyncObject makes is of the object that was sent.
LEMMA ServeSyncKeepsIds ==
    ASSUME Ids, NEW l \in Local, ServeSync(l)
    PROVE  Ids'
<1>1. PICK rp \in Report, o \in Object :
         /\ object[o] = NoRow
         /\ object' = [object EXCEPT ![o] = [report |-> rp, status |-> "draft"]]
         /\ origin' = [origin EXCEPT ![o] = l]
         /\ sync' = [sync EXCEPT ![l] = [state |-> "answered", journey |-> rp,
                                         object |-> o]]
  BY DEF ServeSync, DraftFor
<1>2. [report |-> rp, status |-> "draft"] \in ObjectRow \ {NoRow}
  BY DEF ObjectRow, ObjectStatus, NoRow
<1>3. UNCHANGED serverId
  BY DEF ServeSync, page
<1>4. object' \in [Object -> ObjectRow] /\ origin' = [p \in Object |-> origin'[p]]
  BY <1>1, <1>2 DEF Ids, Typed
<1>5. \A p \in Object : \/ object'[p] = object[p] /\ origin'[p] = origin[p]
                        \/ object[p] = NoRow /\ object'[p] # NoRow
  BY <1>1, <1>2 DEF Ids, Typed
<1>6. /\ sync' = [k \in Local |-> sync'[k]]
      /\ \A k \in Local \ {l} : sync'[k] = sync[k]
      /\ sync'[l].object = o
  BY <1>1 DEF Ids, Typed
<1>7. origin'[o] = l
  BY <1>1 DEF Ids, Typed
<1>8. \A p \in Object : origin'[p] = origin[p] \/ object[p] = NoRow
  BY <1>5
<1>9. \A p \in Object : object'[p] = NoRow => object[p] = NoRow /\ origin'[p] = origin[p]
  BY <1>5
<1>10. \A k \in Local : sync'[k] = sync[k] \/ sync'[k].state # "answered"
           \/ (sync'[k].object \in Object /\ origin'[sync'[k].object] = k)
  BY <1>6, <1>7
<1> QED
  BY <1>3, <1>4, <1>6, <1>8, <1>9, <1>10, NewRowsKeepIds

\* The rows a FinalizeJourney makes take keys that no object of the page has.
LEMMA ServeSubmitKeepsIds ==
    ASSUME Ids, NEW n \in 1..MaxSubmits, ServeSubmit(n)
    PROVE  Ids'
<1> DEFINE rp == submit[n].journey
           entries == submit[n].entries
           removed == {entries.ids[l] : l \in {k \in entries.dropped :
                                                  Found(k, rp, entries)}}
           new == Unknown(rp, entries)
<1>1. PICK key \in [new -> {o \in Object : object[o] = NoRow}] :
         /\ object' = [o \in Object |->
                IF o \in removed THEN [object[o] EXCEPT !.status = "deleted"]
                ELSE IF \E l \in new : key[l] = o
                     THEN [report |-> rp, status |-> "draft"]
                     ELSE object[o]]
         /\ origin' = [o \in Object |->
                IF \E l \in new : key[l] = o THEN CHOOSE l \in new : key[l] = o
                ELSE origin[o]]
  BY DEF ServeSubmit
<1>2. UNCHANGED <<serverId, sync>> /\ rp \in Report
  BY DEF ServeSubmit, page
<1> HIDE DEF removed, new, rp
<1>3. [report |-> rp, status |-> "draft"] \in ObjectRow \ {NoRow}
  BY <1>2 DEF ObjectRow, ObjectStatus, NoRow
<1>4. \A o \in Object : [object[o] EXCEPT !.status = "deleted"] \in ObjectRow \ {NoRow}
  BY DEF Ids, Typed, ObjectRow, ObjectStatus, NoRow
<1>5. object' \in [Object -> ObjectRow] /\ origin' = [o \in Object |-> origin'[o]]
  BY <1>1, <1>3, <1>4 DEF Ids, Typed
<1>6. ASSUME NEW o \in Object
      PROVE  /\ (origin'[o] = origin[o] \/ object[o] = NoRow)
             /\ object'[o] = NoRow => object[o] = NoRow /\ origin'[o] = origin[o]
  <2>1. CASE \E l \in new : key[l] = o
    <3>1. object[o] = NoRow
      BY <1>1, <2>1
    <3>2. object'[o] # NoRow
      BY <1>1, <1>3, <1>4, <2>1
    <3> QED
      BY <3>1, <3>2
  <2>2. CASE ~ \E l \in new : key[l] = o
    <3>1. origin'[o] = origin[o]
      BY <1>1, <2>2
    <3>2. object'[o] = NoRow => object[o] = NoRow
      BY <1>1, <1>4, <2>2
    <3> QED
      BY <3>1, <3>2
  <2> QED
    BY <2>1, <2>2
<1>7. sync' = [l \in Local |-> sync'[l]]
  BY <1>2 DEF Ids, Typed
<1>8. \A o \in Object : origin'[o] = origin[o] \/ object[o] = NoRow
  BY <1>6
<1>9. \A o \in Object : object'[o] = NoRow => object[o] = NoRow /\ origin'[o] = origin[o]
  BY <1>6
<1>10. \A l \in Local : sync'[l] = sync[l]
  BY <1>2
<1> QED
  BY <1>2, <1>5, <1>7, <1>8, <1>9, <1>10, NewRowsKeepIds

\* A refusal changes no id and brings no answer.
LEMMA RefuseKeepsIds ==
    ASSUME Ids, Refuse
    PROVE  Ids'
<1>1. UNCHANGED <<serverId, object, origin>>
  BY DEF Refuse, page
<1>2. UNCHANGED sync \/ \E l \in Local :
          sync' = [sync EXCEPT ![l] = Client!SyncIs("refused")]
  BY DEF Refuse
<1>3. /\ sync' = [l \in Local |-> sync'[l]]
      /\ \A l \in Local : sync'[l] = sync[l] \/ sync'[l].state = "refused"
  BY <1>2, CallStates DEF Ids, Typed
<1> QED
  BY <1>1, <1>3 DEF Ids, Typed, RightIds, AnswersRight, FreeKeys

\* A verdict gives no row away.
LEMMA ReviewKeepsIds ==
    ASSUME TypeOK, Ids, Review
    PROVE  Ids'
<1>1. UNCHANGED <<serverId, sync, origin>>
  BY ReviewEffect DEF page
<1>2. /\ object' \in [Object -> ObjectRow]
      /\ \A o \in Object : object'[o] = NoRow <=> object[o] = NoRow
  BY ReviewEffect
<1>3. Typed'
  BY <1>1, <1>2 DEF Ids, Typed
<1>4. RightIds' /\ AnswersRight'
  BY <1>1 DEF Ids, RightIds, AnswersRight
<1>5. FreeKeys'
  BY <1>1, <1>2 DEF Ids, FreeKeys
<1> QED
  BY <1>3, <1>4, <1>5 DEF Ids

\* The page begins without ids.
LEMMA IdsBegin == Init => Ids
<1> SUFFICES ASSUME Init PROVE Ids
  OBVIOUS
<1>1. /\ serverId = [l \in Local |-> NoId]
      /\ sync = [l \in Local |-> Client!SyncIs("none")]
      /\ object = [o \in Object |-> NoRow]
      /\ origin = [o \in Object |-> NoOrigin]
  BY DEF Init, Client!Init, NoId
<1>2. NoRow \in ObjectRow
  BY DEF NoRow, ObjectRow
<1> QED
  BY <1>1, <1>2, CallStates DEF Ids, Typed, RightIds, AnswersRight, FreeKeys

\* Each step keeps them right.
LEMMA IdsStay == TypeOK /\ Ids /\ [Next]_vars => Ids'
<1> SUFFICES ASSUME TypeOK, Ids, [Next]_vars PROVE Ids'
  OBVIOUS
<1>1. CASE UNCHANGED vars
  BY <1>1 DEF vars, page, Ids, Typed, RightIds, AnswersRight, FreeKeys
<1> QED
  BY <1>1, PageKeepsIds, ServeSyncKeepsIds, ServeSubmitKeepsIds, RefuseKeepsIds,
     ReviewKeepsIds DEF Next, Server

\* The id the page has for an object is the id of a row made for that object,
\* in whatever order answers arrive, are dropped or are overtaken by the user.
THEOREM RightIdsAlways == Spec => []RightIds
<1>1. Ids => RightIds
  BY DEF Ids
<1> QED
  BY TypesBegin, TypesStay, IdsBegin, IdsStay, <1>1, PTL DEF Spec

-----------------------------------------------------------------------------
(* No object is lost. *)

\* The user leaves the summary alone while it is submitted.
SummaryLeftAlone == "edit" \notin Hasty /\ "close" \notin Hasty

\* The submission the page waits for is of the journey whose summary is shown, as it is
\* shown; when it was accepted, no object of it is missing in a submitted report.
SubmitObserved ==
    /\ Client!OneJourney
    /\ submitting # 0 =>
          /\ finishedJourney # Client!Null
          /\ submit[submitting].state = "asked" =>
                /\ submit[submitting].journey = finishedJourney.id
                /\ submit[submitting].entries = Client!EntriesOf(finishedJourney)
          /\ submit[submitting].state = "accepted" =>
                \A l \in finishedJourney.objects \ deleted : SubmittedRowsOf(l) # {}

\* Each row is in a report.
RowsInReports == \A o \in Object : Exists(o) => object[o].report \in Report

DeliveredInv == TypeOK /\ Ids /\ RowsInReports /\ SubmitObserved

\* What the page does to a journey that it waits for: nothing, unless it lets go of it.
LEMMA PageLeavesSummary ==
    ASSUME SummaryLeftAlone, TypeOK, SubmitObserved, PageStep
    PROVE  /\ Client!OneJourney'
           /\ submitting' # 0 =>
                 \/ /\ submitting' = submitting
                    /\ UNCHANGED <<finishedJourney, deleted, serverId, submit[submitting]>>
                 \/ /\ finishedJourney # Client!Null
                    /\ UNCHANGED <<finishedJourney, deleted, serverId>>
                    /\ submit'[submitting'].state = "asked"
                    /\ submit'[submitting'].journey = finishedJourney.id
                    /\ submit'[submitting'].entries = Client!EntriesOf(finishedJourney)
           /\ LetsGo => submitting # 0 /\ submit[submitting].state = "accepted"
<1> USE DEF SubmitObserved, Client!OneJourney, LetsGo, Client!journeys, Client!objects,
            Client!calls
<1>1. CASE \/ Client!SetPlaceMode \/ Client!AddPoint \/ Client!HandleFinishPlace
           \/ Client!HandleCancelPlace \/ Client!HandleCancelTypeSelect
  BY <1>1 DEF Client!SetPlaceMode, Client!AddPoint, Client!HandleFinishPlace,
              Client!HandleCancelPlace, Client!HandleCancelTypeSelect
<1>2. CASE Client!StartJourney \/ Client!DeleteStore \/ Client!EndJourney \/ Client!Reload
  BY <1>2 DEF Client!StartJourney, Client!DeleteStore, Client!EndJourney, Client!Reload,
              Client!ControlsShown
<1>3. CASE Client!HandleCloseSummary
  BY <1>3 DEF Client!HandleCloseSummary, SummaryLeftAlone, Client!Waits
<1>4. ASSUME NEW l \in Local, NEW d, Client!UpdateObject(l, d) PROVE submitting = 0
  BY <1>4 DEF Client!UpdateObject, SummaryLeftAlone, Client!Waits
<1>5. CASE \E l \in Local :
              Client!HandleDelete(l) \/ Client!HandleRestore(l) \/ Client!HandleSaveObject(l)
  <2>1. PICK l \in Local : \E d : Client!UpdateObject(l, d)
    BY <1>5 DEF Client!HandleDelete, Client!HandleRestore, Client!HandleSaveObject
  <2> QED
    BY <1>4, <2>1 DEF Client!UpdateObject
<1>6. CASE Client!HandleTypeSelect
  <2>1. currentJourney # Client!Null /\ UNCHANGED <<finishedJourney, submitting>>
    BY <1>6 DEF Client!HandleTypeSelect
  <2> QED
    BY <2>1
<1>7. CASE Client!HandleSubmitSummary
  <2>1. PICK n \in 1..MaxSubmits :
           /\ submit' = [submit EXCEPT ![n] = [state |-> "asked",
                                               journey |-> finishedJourney.id,
                                               entries |-> Client!EntriesOf(finishedJourney)]]
           /\ submitting' = n
    BY <1>7 DEF Client!HandleSubmitSummary
  <2>2. /\ submit'[n].state = "asked" /\ submit'[n].journey = finishedJourney.id
        /\ submit'[n].entries = Client!EntriesOf(finishedJourney)
    BY <2>1 DEF TypeOK, Client!TypeOK
  <2> QED
    BY <1>7, <2>1, <2>2 DEF Client!HandleSubmitSummary
<1>8. ASSUME NEW l \in Local,
             Client!SyncAnswered(l) \/ Client!SyncFailed(l) \/ Client!SyncIgnored(l)
      PROVE  /\ UNCHANGED <<finishedJourney, deleted, submit, submitting>>
             /\ currentJourney = Client!Null => UNCHANGED <<currentJourney, serverId>>
  BY <1>8 DEF Client!SyncAnswered, Client!SyncFailed, Client!SyncIgnored
<1>9. ASSUME NEW n \in 1..MaxSubmits, Client!SubmitSucceeded(n) \/ Client!SubmitFailed(n)
      PROVE  /\ submitting' = 0 /\ UNCHANGED currentJourney /\ n # 0
             /\ \/ UNCHANGED finishedJourney
                \/ /\ finishedJourney' = Client!Null
                   /\ submitting = n /\ submit[n].state = "accepted"
  BY <1>9, PageConstants DEF Client!SubmitSucceeded, Client!SubmitFailed
<1>10. ASSUME NEW n \in 1..MaxSubmits, Client!SubmitIgnored(n)
       PROVE  /\ UNCHANGED <<currentJourney, finishedJourney, deleted, serverId, submitting>>
              /\ UNCHANGED submit[submitting]
  BY <1>10 DEF Client!SubmitIgnored, TypeOK, Client!TypeOK
<1>11. CASE \E l \in Local : Client!SyncAnswered(l) \/ Client!SyncFailed(l)
                               \/ Client!SyncIgnored(l)
  BY <1>8, <1>11
<1>12. CASE \E n \in 1..MaxSubmits : \/ Client!SubmitSucceeded(n) \/ Client!SubmitFailed(n)
                                     \/ Client!SubmitIgnored(n)
  BY <1>9, <1>10, <1>12
<1> QED
  BY <1>1, <1>2, <1>3, <1>5, <1>6, <1>7, <1>11, <1>12
     DEF PageStep, Client!User, Client!Answer

\* Each row stays in a report.
LEMMA RowsInReportsStay ==
    ASSUME TypeOK, RowsInReports, [Next]_vars
    PROVE  RowsInReports'
<1> USE DEF TypeOK, RowsInReports, Exists
<1>1. ASSUME NEW l \in Local, ServeSync(l) PROVE RowsInReports'
  BY <1>1 DEF ServeSync, DraftFor
<1>2. ASSUME NEW n \in 1..MaxSubmits, ServeSubmit(n) PROVE RowsInReports'
  <2>1. submit[n].journey \in Report
    BY <1>2 DEF ServeSubmit
  <2>2. \A o \in Object : \/ object'[o].report = submit[n].journey
                          \/ object'[o] = object[o]
                          \/ object'[o] = [object[o] EXCEPT !.status = "deleted"]
    BY <1>2 DEF ServeSubmit
  <2>3. \A o \in Object : [object[o] EXCEPT !.status = "deleted"].status \notin ObjectStatus
    BY DEF ObjectRow, ObjectStatus
  <2> QED
    BY <2>1, <2>2, <2>3
<1>3. CASE Review \/ UNCHANGED <<report, object, origin>>
  BY <1>3, ReviewEffect
<1> QED
  BY <1>1, <1>2, <1>3, RowSteps

\* What is in a report that was submitted stays there, reviewed or not.
LEMMA SubmittedStays ==
    ASSUME TypeOK, RowsInReports, [Next]_vars, NEW l \in Local
    PROVE  SubmittedRowsOf(l) \subseteq SubmittedRowsOf(l)'
<1> USE DEF TypeOK, Client!TypeOK
<1> SUFFICES ASSUME NEW o \in Object, origin[o] = l, Exists(o),
                    report[object[o].report] \in HandedIn
             PROVE  /\ origin'[o] = l /\ Exists(o)'
                    /\ report'[object'[o].report] \in HandedIn
  BY DEF SubmittedRowsOf, RowsOf, HandedIn
<1>1. object[o] # NoRow
  BY DEF Exists, NoRow, ObjectStatus
<1>2. ASSUME NEW k \in Local, ServeSync(k)
      PROVE  /\ origin'[o] = l /\ object'[o] = object[o]
             /\ report'[object[o].report] \in HandedIn
  <2>1. PICK rp \in DraftFor(sync[k].journey), p \in Object :
           /\ object[p] = NoRow
           /\ report' = [report EXCEPT ![rp] = "draft"]
           /\ object' = [object EXCEPT ![p] = [report |-> rp, status |-> "draft"]]
           /\ origin' = [origin EXCEPT ![p] = k]
    BY <1>2 DEF ServeSync
  <2>2. report[rp] \in {"draft", "none"}
    BY DEF DraftFor
  <2> QED
    BY <1>1, <2>1, <2>2 DEF HandedIn, Decided
<1>3. ASSUME NEW n \in 1..MaxSubmits, ServeSubmit(n)
      PROVE  /\ origin'[o] = l /\ object'[o] = object[o]
             /\ report'[object[o].report] \in HandedIn
  <2> DEFINE rp == submit[n].journey
             entries == submit[n].entries
             removed == {entries.ids[k] : k \in {i \in entries.dropped :
                                                    Found(i, rp, entries)}}
             new == Unknown(rp, entries)
  <2>1. report[rp] = "draft" /\ rp \in Report /\ report' = [report EXCEPT ![rp] = "submitted"]
    BY <1>3 DEF ServeSubmit
  <2>2. PICK key \in [new -> {p \in Object : object[p] = NoRow}] :
           /\ object' = [p \in Object |->
                  IF p \in removed THEN [object[p] EXCEPT !.status = "deleted"]
                  ELSE IF \E k \in new : key[k] = p
                       THEN [report |-> rp, status |-> "draft"]
                       ELSE object[p]]
           /\ origin' = [p \in Object |->
                  IF \E k \in new : key[k] = p THEN CHOOSE k \in new : key[k] = p
                  ELSE origin[p]]
    BY <1>3 DEF ServeSubmit
  <2>3. \A p \in removed : object[p].report = rp
    BY DEF Found, ObjectsOf
  <2> HIDE DEF removed, new, rp, entries
  <2>4. o \notin removed /\ ~ \E k \in new : key[k] = o
    BY <1>1, <2>1, <2>2, <2>3 DEF HandedIn, Decided
  <2> QED
    BY <2>1, <2>2, <2>4 DEF HandedIn
<1>4. CASE UNCHANGED <<report, object, origin>>
  BY <1>4 DEF Exists
<1>5. CASE Review
  <2>1. object[o].report \in Report
    BY DEF RowsInReports
  <2> QED
    BY <1>5, <2>1, ReviewEffect DEF HandedIn
<1> QED
  BY <1>2, <1>3, <1>4, <1>5, RowSteps DEF Exists

\* Serving the submission of a journey as it is shown leaves no object of it behind: what is
\* found is submitted, for what is not found a row is made.
LEMMA ServedIsDelivered ==
    ASSUME TypeOK, Ids, SubmitObserved, submitting # 0, ServeSubmit(submitting),
           NEW l \in finishedJourney.objects \ deleted
    PROVE  SubmittedRowsOf(l)' # {}
<1> USE DEF TypeOK, Client!TypeOK
<1> DEFINE rp == submit[submitting].journey
           entries == submit[submitting].entries
           removed == {entries.ids[k] : k \in {i \in entries.dropped :
                                                  Found(i, rp, entries)}}
           new == Unknown(rp, entries)
<1>1. /\ rp \in Report /\ report' = [report EXCEPT ![rp] = "submitted"]
      /\ submit[submitting].state = "asked"
  BY DEF ServeSubmit
<1>2. PICK key \in [new -> {o \in Object : object[o] = NoRow}] :
         /\ \A k, i \in new : key[k] = key[i] => k = i
         /\ object' = [o \in Object |->
                IF o \in removed THEN [object[o] EXCEPT !.status = "deleted"]
                ELSE IF \E k \in new : key[k] = o
                     THEN [report |-> rp, status |-> "draft"]
                     ELSE object[o]]
         /\ origin' = [o \in Object |->
                IF \E k \in new : key[k] = o THEN CHOOSE k \in new : key[k] = o
                ELSE origin[o]]
  BY DEF ServeSubmit
<1>3. finishedJourney \in Client!Journey /\ entries = Client!EntriesOf(finishedJourney)
  BY <1>1 DEF SubmitObserved
<1>4. /\ l \in Local /\ l \in entries.kept /\ finishedJourney.objects \subseteq Local
      /\ entries.dropped = finishedJourney.objects \cap deleted
      /\ \A k \in finishedJourney.objects : entries.ids[k] = serverId[k]
  BY <1>3 DEF Client!EntriesOf, Client!Journey
<1>5. \A k \in Local, o \in Object : serverId[k] = o => origin[o] = k
  BY PageConstants DEF Ids, RightIds, NoId
<1>6. ASSUME NEW o \in removed PROVE o \in Object /\ Exists(o) /\ origin[o] \in deleted
  <2>1. PICK k \in entries.dropped : Found(k, rp, entries) /\ o = entries.ids[k]
    BY <1>6
  <2>2. o \in Object /\ Exists(o)
    BY <2>1 DEF Found, ObjectsOf
  <2> QED
    BY <1>4, <1>5, <2>1, <2>2
<1>7. CASE Found(l, rp, entries)
  <2>1. /\ serverId[l] \in Object /\ Exists(serverId[l])
        /\ object[serverId[l]].report = rp
    BY <1>4, <1>7 DEF Found, ObjectsOf
  <2>2. origin[serverId[l]] = l
    BY <1>4, <1>5, <2>1
  <2>3. serverId[l] \notin removed
    BY <1>6, <2>2
  <2>4. object[serverId[l]] # NoRow
    BY <2>1 DEF Exists, NoRow, ObjectStatus
  <2> HIDE DEF removed, new, rp, entries
  <2>5. /\ object'[serverId[l]] = object[serverId[l]]
        /\ origin'[serverId[l]] = l
    BY <1>2, <2>1, <2>2, <2>3, <2>4
  <2> QED
    BY <1>1, <2>1, <2>5 DEF SubmittedRowsOf, HandedIn, RowsOf, Exists
<1>8. CASE ~ Found(l, rp, entries)
  <2>1. l \in new
    BY <1>4, <1>8 DEF Unknown
  <2> HIDE DEF new, rp, entries
  <2>2. key[l] \in Object /\ object[key[l]] = NoRow
    BY <1>2, <2>1
  <2>3. key[l] \notin removed
    BY <1>6, <2>2 DEF Exists, NoRow, ObjectStatus
  <2> HIDE DEF removed
  <2>4. (CHOOSE k \in new : key[k] = key[l]) = l
    BY <1>2, <2>1
  <2>5. object'[key[l]] = [report |-> rp, status |-> "draft"] /\ origin'[key[l]] = l
    BY <1>2, <2>1, <2>2, <2>3, <2>4
  <2> QED
    BY <1>1, <2>2, <2>5 DEF SubmittedRowsOf, HandedIn, RowsOf, Exists, ObjectStatus
<1> QED
  BY <1>7, <1>8

\* Each step keeps the submission what it was when it was sent.
LEMMA DeliveredStep ==
    ASSUME SummaryLeftAlone, DeliveredInv, [Next]_vars
    PROVE  DeliveredInv'
<1> USE DEF DeliveredInv
<1>1. TypeOK' /\ Ids' /\ RowsInReports'
  BY TypesStay, IdsStay, RowsInReportsStay
<1>2. ASSUME NEW l \in finishedJourney.objects \ deleted, finishedJourney # Client!Null,
             SubmittedRowsOf(l) # {}
      PROVE  SubmittedRowsOf(l)' # {}
  <2>1. l \in Local
    BY <1>2 DEF TypeOK, Client!TypeOK, Client!Journey
  <2> QED
    BY <1>2, <2>1, SubmittedStays
<1>e. UNCHANGED <<finishedJourney, deleted, serverId>>
        => Client!EntriesOf(finishedJourney)' = Client!EntriesOf(finishedJourney)
  BY DEF Client!EntriesOf
<1>3. ASSUME UNCHANGED <<finishedJourney, deleted, serverId, submitting>>,
             Client!OneJourney', submitting # 0 => UNCHANGED submit[submitting]
      PROVE  SubmitObserved'
  BY <1>2, <1>3, <1>e DEF SubmitObserved
<1>4. ASSUME PageStep PROVE SubmitObserved'
  <2>1. Client!OneJourney'
    BY <1>4, PageLeavesSummary
  <2>2. CASE submitting' = 0
    BY <2>1, <2>2 DEF SubmitObserved
  <2>3. CASE /\ submitting' = submitting
             /\ UNCHANGED <<finishedJourney, deleted, serverId, submit[submitting]>>
    BY <1>3, <2>1, <2>3
  <2>4. CASE /\ finishedJourney # Client!Null /\ UNCHANGED <<finishedJourney, deleted, serverId>>
             /\ submit'[submitting'].state = "asked"
             /\ submit'[submitting'].journey = finishedJourney.id
             /\ submit'[submitting'].entries = Client!EntriesOf(finishedJourney)
    BY <1>e, <2>1, <2>4 DEF SubmitObserved
  <2> QED
    BY <1>4, <2>2, <2>3, <2>4, PageLeavesSummary
<1>5. ASSUME NEW n \in 1..MaxSubmits, ServeSubmit(n) PROVE SubmitObserved'
  <2>1. /\ UNCHANGED page /\ submit' = [submit EXCEPT ![n] = Client!SubmitIs("accepted")]
    BY <1>5 DEF ServeSubmit
  <2>2. CASE n = submitting
    <3>1. submit'[submitting].state = "accepted"
      BY <2>1, <2>2 DEF TypeOK, Client!TypeOK, Client!SubmitIs
    <3>2. submitting # 0
      BY <2>2, PageConstants
    <3> QED
      BY <1>5, <2>1, <2>2, <3>1, <3>2, ServedIsDelivered
         DEF SubmitObserved, page, Client!OneJourney
  <2>3. CASE n # submitting
    BY <1>3, <2>1, <2>3 DEF page, SubmitObserved, Client!OneJourney, TypeOK, Client!TypeOK
  <2> QED
    BY <2>2, <2>3
<1>6. ASSUME Refuse PROVE SubmitObserved'
  <2>1. /\ UNCHANGED page
        /\ submitting # 0 => \/ UNCHANGED submit[submitting]
                             \/ submit'[submitting].state = "refused"
    <3>1. UNCHANGED submit \/ \E n \in 1..MaxSubmits :
             submit' = [submit EXCEPT ![n] = Client!SubmitIs("refused")]
      BY <1>6 DEF Refuse
    <3>2. submitting # 0 => submitting \in 1..MaxSubmits
      BY PageConstants DEF TypeOK, Client!TypeOK
    <3>3. Client!SubmitIs("refused").state = "refused"
      BY DEF Client!SubmitIs
    <3>4. UNCHANGED page /\ submitting' = submitting
      BY <1>6 DEF Refuse, page
    <3>5. \A m \in 1..MaxSubmits : submit'[m] = submit[m] \/ submit'[m].state = "refused"
      BY <3>1, <3>3 DEF TypeOK, Client!TypeOK
    <3> QED
      BY <3>2, <3>4, <3>5
  <2> QED
    BY <1>3, <1>e, <2>1 DEF page, SubmitObserved, Client!OneJourney
<1>7. ASSUME UNCHANGED <<page, submit>> PROVE SubmitObserved'
  BY <1>3, <1>7 DEF page, SubmitObserved, Client!OneJourney
<1>8. (\E l \in Local : ServeSync(l)) \/ Review \/ UNCHANGED vars
        => UNCHANGED <<page, submit>>
  BY DEF ServeSync, Review, vars
<1>9. SubmitObserved'
  BY <1>4, <1>5, <1>6, <1>7, <1>8 DEF Next, Server
<1> QED
  BY <1>1, <1>9

\* What the page lets go of was delivered.
LEMMA LetsGoDelivered ==
    ASSUME SummaryLeftAlone, DeliveredInv, [Next]_vars, LetsGo
    PROVE  \A l \in finishedJourney.objects \ deleted : SubmittedRowsOf(l) # {}
<1>1. PageStep
  BY DEF LetsGo, Next, Server, ServeSync, ServeSubmit, Refuse, Review, page, vars
<1> QED
  BY <1>1, PageLeavesSummary DEF DeliveredInv, SubmitObserved, LetsGo

\* What all of them start from.
LEMMA DeliveredBegin == Init => DeliveredInv
<1>1. Init => SubmitObserved
  BY DEF Init, Client!Init, SubmitObserved, Client!OneJourney
<1>2. Init => RowsInReports
  BY DEF Init, RowsInReports, Exists, NoRow, ObjectStatus
<1> QED
  BY <1>1, <1>2, TypesBegin, IdsBegin DEF DeliveredInv

\* If the user leaves the summary alone while it is submitted, the page lets go of a journey
\* only when every object of it that was not deleted is in a submitted report: whatever else
\* is done in haste, whichever calls are lost or repeated.
THEOREM AllDelivered == SummaryLeftAlone => (Spec => Delivered)
<1> SUFFICES ASSUME SummaryLeftAlone PROVE Spec => Delivered
  OBVIOUS
<1>1. DeliveredInv /\ [Next]_vars => DeliveredInv'
  BY DeliveredStep
<1>2. DeliveredInv /\ [Next]_vars
        => [LetsGo => \A l \in finishedJourney.objects \ deleted :
                          SubmittedRowsOf(l) # {}]_vars
  BY LetsGoDelivered
<1> QED
  BY DeliveredBegin, <1>1, <1>2, PTL DEF Spec, Delivered

-----------------------------------------------------------------------------
(* The status of a report and the verdicts on its objects. *)

\* StatusIsVerdicts object by object, and a report that does not exist has none.
Verdicts ==
    /\ \A rp \in Report : report[rp] = "none" => ObjectsOf(rp) = {}
    /\ \A rp \in Report : report[rp] = "draft" =>
           \A o \in ObjectsOf(rp) : object[o].status = "draft"
    /\ \A rp \in Report : report[rp] = "submitted" =>
           ObjectsOf(rp) = {} \/ \E o \in ObjectsOf(rp) : object[o].status = "draft"
    /\ \A rp \in Report : report[rp] = "resolved" =>
           /\ \A o \in ObjectsOf(rp) : object[o].status # "draft"
           /\ ObjectsOf(rp) = {} \/ \E o \in ObjectsOf(rp) : object[o].status = "resolved"
    /\ \A rp \in Report : report[rp] = "closed" =>
           \A o \in ObjectsOf(rp) : object[o].status = "closed"

\* It says what is claimed.
LEMMA VerdictsAreStatus == Verdicts => StatusIsVerdicts
  BY DEF Verdicts, StatusIsVerdicts

\* A report whose objects and status stay as they are keeps to its verdicts.
LEMMA OtherVerdicts ==
    ASSUME Verdicts, NEW rp \in Report, report'[rp] = report[rp],
           ObjectsOf(rp)' = ObjectsOf(rp),
           \A o \in ObjectsOf(rp) : object'[o].status = object[o].status
    PROVE  /\ report'[rp] = "none" => ObjectsOf(rp)' = {}
           /\ report'[rp] = "draft" =>
                  \A o \in ObjectsOf(rp)' : object'[o].status = "draft"
           /\ report'[rp] = "submitted" =>
                  \/ ObjectsOf(rp)' = {}
                  \/ \E o \in ObjectsOf(rp)' : object'[o].status = "draft"
           /\ report'[rp] = "resolved" =>
                  /\ \A o \in ObjectsOf(rp)' : object'[o].status # "draft"
                  /\ \/ ObjectsOf(rp)' = {}
                     \/ \E o \in ObjectsOf(rp)' : object'[o].status = "resolved"
           /\ report'[rp] = "closed" =>
                  \A o \in ObjectsOf(rp)' : object'[o].status = "closed"
  BY DEF Verdicts

\* A new object goes into a draft, or into a report that was not there.
LEMMA SyncKeepsVerdicts ==
    ASSUME TypeOK, RowsInReports, Verdicts, NEW l \in Local, ServeSync(l)
    PROVE  Verdicts'
<1> USE DEF TypeOK
<1>1. PICK rp \in DraftFor(sync[l].journey), p \in Object :
         /\ object[p] = NoRow
         /\ report' = [report EXCEPT ![rp] = "draft"]
         /\ object' = [object EXCEPT ![p] = [report |-> rp, status |-> "draft"]]
  BY DEF ServeSync
<1>2. rp \in Report /\ report[rp] \in {"draft", "none"}
  BY DEF DraftFor
<1>3. ~ Exists(p)
  BY <1>1 DEF Exists, NoRow, ObjectStatus
<1>4. /\ report'[rp] = "draft" /\ \A r \in Report \ {rp} : report'[r] = report[r]
      /\ object'[p].report = rp /\ object'[p].status = "draft"
      /\ \A o \in Object \ {p} : object'[o] = object[o]
  BY <1>1, <1>2
<1>5. \A o \in ObjectsOf(rp)' : object'[o].status = "draft"
  <2>1. \A o \in ObjectsOf(rp) : object[o].status = "draft"
    BY <1>2 DEF Verdicts
  <2> QED
    BY <1>4, <2>1 DEF ObjectsOf, Exists
<1>6. ASSUME NEW r \in Report \ {rp}
      PROVE  /\ ObjectsOf(r)' = ObjectsOf(r)
             /\ \A o \in ObjectsOf(r) : object'[o].status = object[o].status
  BY <1>3, <1>4 DEF ObjectsOf, Exists
<1> QED
  BY <1>4, <1>5, <1>6, OtherVerdicts DEF Verdicts

\* What is submitted holds new objects and those of a draft: none of them has a verdict.
LEMMA SubmitKeepsVerdicts ==
    ASSUME TypeOK, RowsInReports, Verdicts, NEW n \in 1..MaxSubmits, ServeSubmit(n)
    PROVE  Verdicts'
<1> USE DEF TypeOK
<1>r. PICK rp \in Report : rp = submit[n].journey
  BY DEF ServeSubmit
<1> DEFINE entries == submit[n].entries
           removed == {entries.ids[k] : k \in {i \in entries.dropped : Found(i, rp, entries)}}
           new == Unknown(rp, entries)
<1>1. report[rp] = "draft" /\ report' = [report EXCEPT ![rp] = "submitted"]
  BY <1>r DEF ServeSubmit
<1>2. PICK key \in [new -> {o \in Object : object[o] = NoRow}] :
         object' = [o \in Object |->
             IF o \in removed THEN [object[o] EXCEPT !.status = "deleted"]
             ELSE IF \E l \in new : key[l] = o
                  THEN [report |-> rp, status |-> "draft"]
                  ELSE object[o]]
  BY <1>r DEF ServeSubmit
<1>3. removed \subseteq ObjectsOf(rp)
  BY DEF Found
<1> HIDE DEF removed, new, entries
<1>4. ASSUME NEW o \in Object
      PROVE  \/ object'[o] = object[o]
             \/ o \in ObjectsOf(rp) /\ object'[o].status \notin ObjectStatus
             \/ ~ Exists(o) /\ object'[o].report = rp /\ object'[o].status = "draft"
  <2>1. CASE o \in removed
    BY <1>2, <1>3, <2>1 DEF ObjectRow, ObjectStatus
  <2>2. CASE o \notin removed /\ \E l \in new : key[l] = o
    <3>1. object[o] = NoRow
      BY <1>2, <2>2
    <3> QED
      BY <1>2, <2>2, <3>1 DEF Exists, NoRow, ObjectStatus
  <2>3. CASE o \notin removed /\ ~ \E l \in new : key[l] = o
    BY <1>2, <2>3
  <2> QED
    BY <2>1, <2>2, <2>3
<1>5. \A o \in ObjectsOf(rp)' : object'[o].status = "draft"
  <2>1. \A o \in ObjectsOf(rp) : object[o].status = "draft"
    BY <1>1 DEF Verdicts
  <2> QED
    BY <1>4, <2>1 DEF ObjectsOf, Exists
<1>6. ASSUME NEW r \in Report \ {rp}
      PROVE  /\ ObjectsOf(r)' = ObjectsOf(r) /\ report'[r] = report[r]
             /\ \A o \in ObjectsOf(r) : object'[o].status = object[o].status
  <2>1. ASSUME NEW o \in Object
        PROVE  /\ o \in ObjectsOf(r)' <=> o \in ObjectsOf(r)
               /\ o \in ObjectsOf(r) => object'[o].status = object[o].status
    BY <1>4 DEF ObjectsOf, Exists
  <2> QED
    BY <1>1, <2>1 DEF ObjectsOf
<1>7. report'[rp] = "submitted"
  BY <1>1
<1> QED
  BY <1>5, <1>6, <1>7, OtherVerdicts DEF Verdicts

\* A verdict leaves the report waiting as long as an object of it has none.
LEMMA ReviewKeepsVerdicts ==
    ASSUME "draft" \notin ReviewOf, TypeOK, RowsInReports, Verdicts, Review
    PROVE  Verdicts'
<1> USE DEF TypeOK
<1>1. PICK p \in Object, verdict \in Decided :
         /\ Exists(p) /\ report[object[p].report] \in ReviewOf
         /\ object' = [object EXCEPT ![p].status = verdict]
         /\ report' = [report EXCEPT ![object[p].report] =
                          Outcome([StatusesIn(object[p].report) EXCEPT ![p] = verdict], @)]
  BY DEF Review
<1> DEFINE rp == object[p].report
           statuses == [StatusesIn(rp) EXCEPT ![p] = verdict]
<1>2. rp \in Report /\ p \in ObjectsOf(rp)
  BY <1>1 DEF RowsInReports, ObjectsOf
<1>3. /\ object'[p].report = rp /\ object'[p].status = verdict
      /\ \A o \in Object \ {p} : object'[o] = object[o]
  BY <1>1 DEF ObjectRow
<1>4. \A r \in Report : ObjectsOf(r)' = ObjectsOf(r)
  <2>1. \A o \in Object : /\ object'[o].report = object[o].report
                          /\ object'[o].status \in ObjectStatus <=> Exists(o)
    BY <1>1, <1>3 DEF Exists, Decided, ObjectStatus
  <2> QED
    BY <2>1 DEF ObjectsOf, Exists
<1>5. \A o \in Object : statuses[o] = IF o \in ObjectsOf(rp) THEN object'[o].status
                                                             ELSE "none"
  BY <1>2, <1>3 DEF StatusesIn
<1>6. report'[rp] = Outcome(statuses, report[rp])
      /\ \A r \in Report \ {rp} : report'[r] = report[r]
  BY <1>1, <1>2
<1>7. report[rp] \in {"submitted", "resolved", "closed"}
  BY <1>1, <1>2 DEF ReportStatus, Verdicts
<1>8. \A o \in ObjectsOf(rp) : o \in Object /\ object'[o].status \in ObjectStatus
  BY <1>4, <1>2 DEF ObjectsOf, Exists
<1> HIDE DEF statuses, rp
<1>9. \/ /\ report'[rp] = "closed"
         /\ \A o \in ObjectsOf(rp) : object'[o].status = "closed"
      \/ /\ report'[rp] = "resolved"
         /\ \A o \in ObjectsOf(rp) : object'[o].status # "draft"
         /\ \E o \in ObjectsOf(rp) : object'[o].status = "resolved"
      \/ /\ report'[rp] = report[rp]
         /\ \E o \in ObjectsOf(rp) : object'[o].status = "draft"
  <2> DEFINE reportVerify == {o \in Object : statuses[o] # "none"}
             notReviewed == {o \in reportVerify : statuses[o] = "draft"}
             rejected == {o \in reportVerify : statuses[o] = "closed"}
  <2>1. reportVerify = ObjectsOf(rp)
    BY <1>5, <1>8 DEF ObjectStatus, ObjectsOf
  <2>2. \A o \in ObjectsOf(rp) : statuses[o] = object'[o].status
    BY <1>5, <1>8
  <2>3. report'[rp] = IF rejected = reportVerify THEN "closed"
                      ELSE IF notReviewed = {} THEN "resolved" ELSE report[rp]
    BY <1>6 DEF Outcome
  <2>4. rejected = reportVerify => \A o \in ObjectsOf(rp) : object'[o].status = "closed"
    BY <2>1, <2>2
  <2>5. rejected # reportVerify => \E o \in ObjectsOf(rp) : object'[o].status # "closed"
    BY <2>1, <2>2
  <2>6. notReviewed = {} <=> \A o \in ObjectsOf(rp) : object'[o].status # "draft"
    BY <2>1, <2>2
  <2> HIDE DEF reportVerify, notReviewed, rejected
  <2> QED
    BY <1>8, <2>3, <2>4, <2>5, <2>6 DEF ObjectStatus
<1>10. (\E o \in ObjectsOf(rp) : object'[o].status = "draft") => report[rp] = "submitted"
  BY <1>2, <1>3, <1>7 DEF Verdicts, Decided, ObjectsOf
<1>11. ASSUME NEW r \in Report \ {rp}
       PROVE  \A o \in ObjectsOf(r) : object'[o].status = object[o].status
  BY <1>3, <1>2 DEF ObjectsOf
<1> QED
  BY <1>4, <1>6, <1>9, <1>10, <1>11, OtherVerdicts DEF Verdicts

VerdictInv == TypeOK /\ RowsInReports /\ Verdicts

\* Each step keeps the reports to their verdicts, if no draft is reviewed.
LEMMA VerdictStep ==
    "draft" \notin ReviewOf /\ VerdictInv /\ [Next]_vars => VerdictInv'
<1> SUFFICES ASSUME "draft" \notin ReviewOf, VerdictInv, [Next]_vars PROVE VerdictInv'
  OBVIOUS
<1> USE DEF VerdictInv
<1>1. CASE UNCHANGED <<report, object, origin>>
  BY <1>1, TypesStay, RowsInReportsStay DEF Verdicts, ObjectsOf, Exists
<1> QED
  BY <1>1, TypesStay, RowsInReportsStay, RowSteps, SyncKeepsVerdicts, SubmitKeepsVerdicts,
     ReviewKeepsVerdicts

\* As long as no administrator reviews a draft, the status of a report is what its objects'
\* verdicts make it, whatever the user does in haste and whichever calls are lost: in
\* particular a submitted report with objects has one to review, so that it can be decided.
THEOREM StatusFromVerdicts == "draft" \notin ReviewOf => (Spec => []StatusIsVerdicts)
<1> SUFFICES ASSUME "draft" \notin ReviewOf PROVE Spec => []StatusIsVerdicts
  OBVIOUS
<1>1. Init => VerdictInv
  <2>1. Init => RowsInReports /\ Verdicts
    BY DEF Init, RowsInReports, Verdicts, ObjectsOf, Exists, NoRow, ObjectStatus
  <2> QED
    BY <2>1, TypesBegin DEF VerdictInv
<1>2. VerdictInv /\ [Next]_vars => VerdictInv'
  BY VerdictStep
<1>3. VerdictInv => StatusIsVerdicts
  BY VerdictsAreStatus DEF VerdictInv
<1> QED
  BY <1>1, <1>2, <1>3, PTL DEF Spec
=============================================================================
