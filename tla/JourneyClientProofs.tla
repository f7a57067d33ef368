------------------------- MODULE JourneyClientProofs -------------------------
(***************************************************************************)
(* What holds of the map page for any set of objects, any bounds, any haste *)
(* of the user and whatever the server answers.                             *)
(***************************************************************************)
EXTENDS JourneyClient, TLAPS

-----------------------------------------------------------------------------
(* Types. *)

\* A journey that got another id or more objects is still a journey, and none
\* of them is Null.
LEMMA JourneyKept ==
    ASSUME NEW j \in Journey, NEW id \in Report \cup {NoId}, NEW l \in Local
    PROVE  /\ j # Null
           /\ [j EXCEPT !.id = id] \in Journey
           /\ [j EXCEPT !.objects = @ \cup {l}] \in Journey
<1>1. j.id # "null" /\ Null.id = "null"
  BY ClientKeys DEF Journey, Null, NoId
<1>2. [j EXCEPT !.id = id] \in Journey
  BY DEF Journey
<1>3. [j EXCEPT !.objects = @ \cup {l}] \in Journey
  BY DEF Journey
<1> QED
  BY <1>1, <1>2, <1>3

\* What is sent of a journey has the type of a submission's entries.
LEMMA EntriesType ==
    ASSUME TypeOK, NEW j \in Journey
    PROVE  EntriesOf(j) \in Entries
  BY DEF TypeOK, Journey, Entries, EntriesOf

\* The calls that carry no data.
LEMMA BareCalls ==
    /\ \A state \in {"none", "asked", "answered", "refused", "over"} :
           SyncIs(state) \in SyncCall
    /\ \A state \in {"none", "asked", "accepted", "refused", "over"} :
           SubmitIs(state) \in SubmitCall
  BY DEF SyncIs, SubmitIs, SyncCall, SubmitCall, NoEntries, Entries

\* Each step keeps the types.
LEMMA TypeStep == TypeOK /\ [Next]_vars => TypeOK'
<1> SUFFICES ASSUME TypeOK, [Next]_vars PROVE TypeOK'
  OBVIOUS
<1> USE DEF TypeOK
<1>1. CASE StartJourney
  BY <1>1 DEF StartJourney, placing, objects, calls, Journey
<1>2. CASE SetPlaceMode
  BY <1>2 DEF SetPlaceMode, journeys, objects, calls
<1>3. CASE AddPoint
  <2>1. currentObjectPoints' \in 0..MaxPoints
    BY <1>3, ClientBounds DEF AddPoint
  <2> QED
    BY <1>3, <2>1 DEF AddPoint, journeys, objects, calls
<1>4. CASE HandleFinishPlace
  BY <1>4 DEF HandleFinishPlace, journeys, objects, calls
<1>5. CASE HandleCancelPlace
  BY <1>5, ClientBounds DEF HandleCancelPlace, journeys, objects, calls
<1>6. CASE HandleCancelTypeSelect
  <2>1. showTypeSelector' \in BOOLEAN
    BY <1>6, Zenon DEF HandleCancelTypeSelect
  <2>2. currentObjectPoints' \in 0..MaxPoints
    BY <1>6, ClientBounds DEF HandleCancelTypeSelect
  <2> QED
    BY <1>6, <2>1, <2>2 DEF HandleCancelTypeSelect, journeys, objects, calls
<1>7. CASE HandleTypeSelect
  <2>1. PICK l \in Local \ placed, onLine \in BOOLEAN :
           /\ placed' = placed \cup {l}
           /\ currentJourney' = [currentJourney EXCEPT !.objects = @ \cup {l}]
           /\ IF onLine
              THEN /\ sync' = [sync EXCEPT ![l] = [SyncIs("asked") EXCEPT
                                                      !.journey = currentJourney.id]]
                   /\ syncing' = l
              ELSE UNCHANGED <<sync, syncing>>
    BY <1>7 DEF HandleTypeSelect
  <2>2. currentJourney \in Journey
    BY <1>7 DEF HandleTypeSelect
  <2>3. currentJourney' \in Journey
    BY <2>1, <2>2, JourneyKept
  <2>4. [SyncIs("asked") EXCEPT !.journey = currentJourney.id] \in SyncCall
    BY <2>2 DEF SyncIs, SyncCall, Journey
  <2>5. sync' \in [Local -> SyncCall] /\ syncing' \in Local \cup {NoObject}
    BY <2>1, <2>4
  <2>6. showTypeSelector' \in BOOLEAN
    BY <1>7, Zenon DEF HandleTypeSelect
  <2>7. currentObjectPoints' \in 0..MaxPoints
    BY <1>7, ClientBounds DEF HandleTypeSelect
  <2> QED
    BY <1>7, <2>1, <2>3, <2>5, <2>6, <2>7 DEF HandleTypeSelect
<1>8. CASE DeleteStore
  BY <1>8, ClientBounds DEF DeleteStore, objects, calls
<1>9. CASE EndJourney
  BY <1>9, ClientBounds DEF EndJourney, objects, calls
<1>10. CASE HandleCloseSummary
  BY <1>10 DEF HandleCloseSummary, placing, objects, calls
<1>11. CASE HandleSubmitSummary
  <2>1. finishedJourney \in Journey
    BY <1>11 DEF HandleSubmitSummary
  <2>2. [state |-> "asked", journey |-> finishedJourney.id,
         entries |-> EntriesOf(finishedJourney)] \in SubmitCall
    BY <2>1, EntriesType DEF SubmitCall, Journey
  <2> QED
    BY <1>11, <2>2 DEF HandleSubmitSummary, journeys, placing, objects
<1>12. CASE Reload
  <2>1. showTypeSelector' \in BOOLEAN
    BY <1>12, Zenon DEF Reload
  <2>2. submitting' \in 0..MaxSubmits
    BY <1>12, ClientBounds DEF Reload
  <2> QED
    BY <1>12, <2>1, <2>2 DEF Reload, journeys, objects
<1>13. CASE \E l \in Local : HandleDelete(l) \/ HandleRestore(l) \/ HandleSaveObject(l)
  BY <1>13 DEF HandleDelete, HandleRestore, HandleSaveObject, UpdateObject,
               journeys, placing, calls
<1>14. CASE AnyServer
  <2>1. sync' \in [Local -> SyncCall]
    <3>1. \A rp \in Report, o \in Object :
             [state |-> "answered", journey |-> rp, object |-> o] \in SyncCall
      BY DEF SyncCall
    <3> QED
      BY <1>14, <3>1, BareCalls DEF AnyServer
  <2>2. submit' \in [1..MaxSubmits -> SubmitCall]
    BY <1>14, BareCalls DEF AnyServer
  <2> QED
    BY <1>14, <2>1, <2>2 DEF AnyServer, journeys, placing, objects
<1>15. ASSUME NEW l \in Local, SyncAnswered(l) PROVE TypeOK'
  <2>1. sync[l].journey \in Report \cup {NoId} /\ sync[l].object \in Object \cup {NoId}
    BY DEF SyncCall
  <2>2. currentJourney' \in Journey \cup {Null}
    <3>1. CASE currentJourney = Null
      BY <1>15, <3>1 DEF SyncAnswered
    <3>2. CASE currentJourney # Null
      <4>1. currentJourney' = [currentJourney EXCEPT !.id = sync[l].journey]
        BY <1>15, <3>2 DEF SyncAnswered
      <4> QED
        BY <2>1, <3>2, <4>1, JourneyKept
    <3> QED
      BY <3>1, <3>2
  <2>3. serverId' \in [Local -> Object \cup {NoId}]
    BY <1>15, <2>1 DEF SyncAnswered
  <2>4. sync' \in [Local -> SyncCall] /\ syncing' \in Local \cup {NoObject}
    BY <1>15, BareCalls DEF SyncAnswered
  <2> QED
    BY <1>15, <2>2, <2>3, <2>4 DEF SyncAnswered, placing
<1>16. ASSUME NEW l \in Local, SyncFailed(l) \/ SyncIgnored(l) PROVE TypeOK'
  BY <1>16, BareCalls DEF SyncFailed, SyncIgnored, journeys, placing, objects
<1>17. ASSUME NEW n \in 1..MaxSubmits,
              SubmitSucceeded(n) \/ SubmitFailed(n) \/ SubmitIgnored(n)
       PROVE  TypeOK'
  BY <1>17, BareCalls, ClientBounds
     DEF SubmitSucceeded, SubmitFailed, SubmitIgnored, journeys, placing, objects
<1>18. CASE UNCHANGED vars
  BY <1>18 DEF vars, journeys, placing, objects, calls
<1> QED
  BY <1>1, <1>2, <1>3, <1>4, <1>5, <1>6, <1>7, <1>8, <1>9, <1>10, <1>11, <1>12,
     <1>13, <1>14, <1>15, <1>16, <1>17, <1>18 DEF Next, User, Answer

\* The page's state keeps its types, whatever the server answers.
THEOREM TypeCorrect == Spec => []TypeOK
<1>1. Init => TypeOK
  <2> SUFFICES ASSUME Init PROVE TypeOK
    OBVIOUS
  <2>1. showTypeSelector \in BOOLEAN
    BY Zenon DEF Init
  <2>2. 0 \in 0..MaxPoints /\ 0 \in 0..MaxSubmits
    BY ClientBounds
  <2>3. sync \in [Local -> SyncCall] /\ submit \in [1..MaxSubmits -> SubmitCall]
    BY BareCalls DEF Init
  <2> QED
    BY <2>1, <2>2, <2>3 DEF Init, TypeOK
<1> QED
  BY <1>1, TypeStep, PTL DEF Spec

-----------------------------------------------------------------------------
(* One journey at a time. *)

\* There is one journey at a time: an answer changes the current journey only
\* when there is one (updateJourneyId), so none comes back beside the finished.
THEOREM OneJourneyAlways == Spec => []OneJourney
<1> USE DEF OneJourney
<1>1. Init => OneJourney
  BY DEF Init
<1>2. OneJourney /\ [Next]_vars => OneJourney'
  <2> SUFFICES ASSUME OneJourney, [Next]_vars PROVE OneJourney'
    OBVIOUS
  <2>1. CASE UNCHANGED journeys
    BY <2>1 DEF journeys
  <2>2. CASE currentJourney' = Null \/ finishedJourney' = Null
    BY <2>2
  <2>3. CASE StartJourney \/ HandleTypeSelect
    BY <2>3 DEF StartJourney, HandleTypeSelect
  <2>4. ASSUME NEW l \in Local, SyncAnswered(l) PROVE OneJourney'
    BY <2>4 DEF SyncAnswered
  <2>5. \/ UNCHANGED journeys
        \/ currentJourney' = Null \/ finishedJourney' = Null
        \/ StartJourney \/ HandleTypeSelect
        \/ \E l \in Local : SyncAnswered(l)
    BY DEF Next, User, Answer, AnyServer, vars, SetPlaceMode, AddPoint,
           HandleFinishPlace, HandleCancelPlace, HandleCancelTypeSelect, DeleteStore,
           EndJourney, HandleCloseSummary, HandleSubmitSummary, Reload, HandleDelete,
           HandleRestore, HandleSaveObject, UpdateObject, SyncFailed, SyncIgnored,
           SubmitSucceeded, SubmitFailed, SubmitIgnored
  <2> QED
    BY <2>1, <2>2, <2>3, <2>4, <2>5
<1> QED
  BY <1>1, <1>2, PTL DEF Spec

-----------------------------------------------------------------------------
(* Placing. *)

\* The steps that can disturb what is drawn.
LEMMA PlacementStep == TypeOK /\ PlacementOK /\ [Next]_vars => PlacementOK'
<1> SUFFICES ASSUME TypeOK, PlacementOK, [Next]_vars PROVE PlacementOK'
  OBVIOUS
<1>t. currentObjectPoints \in Nat /\ placeMode \in {"point", "line", "area", "none"}
  BY ClientBounds DEF TypeOK
<1> DEFINE Drawing == currentObjectPoints > 0 => currentJourney # Null /\ placeMode # "none"
           OnePoint == placeMode = "point" => currentObjectPoints <= 1
           Enough == showTypeSelector => /\ placeMode # "none"
                                         /\ currentObjectPoints >= MinimumPoints(placeMode)
<1>p. Drawing /\ OnePoint /\ Enough
  BY DEF PlacementOK
<1>1. CASE UNCHANGED placing /\ (currentJourney # Null => currentJourney' # Null)
  BY <1>1, <1>p DEF placing, PlacementOK
\* Nothing is drawn any more.
<1>2. CASE currentObjectPoints' = 0 /\ ~ showTypeSelector'
  BY <1>2 DEF PlacementOK
<1>3. CASE SetPlaceMode
  <2>1. currentObjectPoints = 0 /\ currentObjectPoints' = 0
    BY <1>3, <1>t, <1>p DEF SetPlaceMode
  <2>2. ~ showTypeSelector'
    BY <1>3, Zenon DEF SetPlaceMode, ControlsShown
  <2> QED
    BY <2>1, <2>2 DEF PlacementOK
<1>4. CASE AddPoint
  <2>1. placeMode' = placeMode /\ placeMode # "none" /\ currentJourney' # Null
    BY <1>4 DEF AddPoint, journeys
  <2>2. showTypeSelector' = showTypeSelector
    BY <1>4 DEF AddPoint
  <2>3. placeMode = "point" => currentObjectPoints' = 1
    BY <1>4 DEF AddPoint
  <2>4. placeMode # "point" => currentObjectPoints' = currentObjectPoints + 1
    BY <1>4 DEF AddPoint
  <2>5. currentObjectPoints >= MinimumPoints(placeMode)
          => currentObjectPoints' >= MinimumPoints(placeMode)
    BY <1>t, <2>1, <2>3, <2>4 DEF MinimumPoints
  <2>6. Enough'
    BY <1>p, <2>1, <2>2, <2>5
  <2>7. OnePoint'
    BY <2>1, <2>3
  <2> QED
    BY <2>1, <2>6, <2>7 DEF PlacementOK
<1>5. CASE HandleFinishPlace
  <2>1. UNCHANGED <<currentJourney, currentObjectPoints>> /\ placeMode # "none"
    BY <1>5 DEF HandleFinishPlace, journeys
  <2>2. CASE currentObjectPoints = 0 /\ placeMode' = "none" /\ ~ showTypeSelector'
    BY <2>1, <2>2 DEF PlacementOK
  <2>3. CASE currentObjectPoints >= MinimumPoints(placeMode) /\ placeMode' = placeMode
    BY <1>p, <2>1, <2>3 DEF PlacementOK
  <2>4. \/ currentObjectPoints = 0 /\ placeMode' = "none" /\ ~ showTypeSelector'
        \/ currentObjectPoints >= MinimumPoints(placeMode) /\ placeMode' = placeMode
    BY <1>5, Zenon DEF HandleFinishPlace, ControlsShown
  <2> QED
    BY <2>2, <2>3, <2>4
<1>6. CASE Reload
  <2>1. ~ showTypeSelector'
    BY <1>6, Zenon DEF Reload
  <2>2. UNCHANGED <<currentJourney, currentObjectPoints, placeMode>>
    BY <1>6 DEF Reload, journeys
  <2> QED
    BY <1>p, <2>1, <2>2 DEF PlacementOK
<1>7. ASSUME NEW l \in Local, SyncAnswered(l) PROVE PlacementOK'
  <2>1. currentJourney # Null => currentJourney' # Null
    <3> SUFFICES ASSUME currentJourney # Null PROVE currentJourney' # Null
      OBVIOUS
    <3>1. currentJourney' = [currentJourney EXCEPT !.id = sync[l].journey]
      BY <1>7 DEF SyncAnswered
    <3>2. currentJourney \in Journey /\ sync[l].journey \in Report \cup {NoId}
      BY DEF TypeOK, SyncCall
    <3> QED
      BY <3>1, <3>2, JourneyKept
  <2> QED
    BY <1>1, <1>7, <2>1 DEF SyncAnswered
<1>8. CASE StartJourney
  <2>1. currentJourney' # Null
    BY <1>8 DEF StartJourney, Null, NoId
  <2> QED
    BY <1>1, <1>8, <2>1 DEF StartJourney
<1>9. CASE HandleCloseSummary
  BY <1>1, <1>9 DEF HandleCloseSummary
<1>10. CASE HandleCancelPlace \/ DeleteStore \/ EndJourney
  <2>1. ~ showTypeSelector'
    BY <1>10, Zenon DEF HandleCancelPlace, DeleteStore, EndJourney, ControlsShown
  <2> QED
    BY <1>2, <1>10, <2>1 DEF HandleCancelPlace, DeleteStore, EndJourney
<1>11. CASE HandleCancelTypeSelect \/ HandleTypeSelect
  <2>1. ~ showTypeSelector'
    BY <1>11, Zenon DEF HandleCancelTypeSelect, HandleTypeSelect
  <2> QED
    BY <1>2, <1>11, <2>1 DEF HandleCancelTypeSelect, HandleTypeSelect
<1>12. \/ UNCHANGED <<currentJourney, placing>>
       \/ SetPlaceMode \/ AddPoint \/ HandleFinishPlace \/ Reload
       \/ StartJourney \/ HandleCloseSummary
       \/ HandleCancelPlace \/ DeleteStore \/ EndJourney
       \/ HandleCancelTypeSelect \/ HandleTypeSelect
       \/ \E l \in Local : SyncAnswered(l)
  BY DEF Next, User, Answer, AnyServer, vars, journeys, HandleSubmitSummary,
         HandleDelete, HandleRestore, HandleSaveObject, UpdateObject, SyncFailed,
         SyncIgnored, SubmitSucceeded, SubmitFailed, SubmitIgnored
<1> QED
  BY <1>1, <1>3, <1>4, <1>5, <1>6, <1>7, <1>8, <1>9, <1>10, <1>11, <1>12

\* Points are drawn for the current journey only, and the type selector is only
\* shown for an object with the points its mode asks for, although points are
\* added while it is shown and the mode outlives the journey and the page.
THEOREM PlacementSound == Spec => []PlacementOK
<1>1. Init => PlacementOK
  <2> SUFFICES ASSUME Init PROVE PlacementOK
    OBVIOUS
  <2>1. ~ showTypeSelector
    BY DEF Init
  <2>2. currentObjectPoints = 0
    BY DEF Init
  <2> QED
    BY <2>1, <2>2 DEF PlacementOK
<1> QED
  BY <1>1, TypeCorrect, PlacementStep, PTL DEF Spec
=============================================================================
