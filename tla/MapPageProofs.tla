--------------------------- MODULE MapPageProofs ---------------------------
(***************************************************************************)
(* What holds of the map page with its forms, its object types and its      *)
(* connection, for any sets and bounds and whatever the server answers.     *)
(***************************************************************************)
EXTENDS MapPage, TLAPS

-----------------------------------------------------------------------------
(* The store and its calls. *)

\* A step of the page either leaves the store and the calls alone or is a step of
\* JourneyClient.
LEMMA ClientStep == [Next]_vars => [Client!Next]_client
<1> SUFFICES ASSUME [Next]_vars PROVE Client!Next \/ UNCHANGED client
  OBVIOUS
<1> USE DEF Client!Next, Client!User, Client!Answer
<1>1. CASE Controls
  BY <1>1 DEF Controls, StartJourney, Draw, HandleConfirm, Skip, HandleTypeSelect,
              CancelSelect, EndJourney, SelectType
<1>2. CASE Summary
  <2>1. CASE \E entered \in BOOLEAN : SetJourneyTitle(entered)
    BY <2>1 DEF SetJourneyTitle
  <2>2. ASSUME NEW l \in Local,
               HandleDeleteClick(l) \/ HandleRestore(l) \/ HandleEditObject(l)
               \/ EditObject(l)
        PROVE  Client!Next \/ UNCHANGED client
    BY <2>2 DEF HandleDeleteClick, HandleRestore, HandleEditObject, EditObject
  <2>3. CASE ConfirmTimeout \/ CloseForm \/ HandleCloseSummary \/ HandleFinalize
    BY <2>3 DEF ConfirmTimeout, CloseForm, HandleCloseSummary, HandleFinalize
  <2> QED
    BY <1>2, <2>1, <2>2, <2>3 DEF Summary
<1>3. CASE Answers
  BY <1>3 DEF Answers, SubmitAnswered, SyncReturns
<1>4. CASE AnyServer \/ Browser
  BY <1>4 DEF AnyServer, Browser, GoOnline, GoOffline, FetchTypes, RefetchTypes,
              FeedArrives, Reload
<1>5. CASE UNCHANGED vars
  BY <1>5 DEF vars
<1> QED
  BY <1>1, <1>2, <1>3, <1>4, <1>5 DEF Next

\* The page with its forms does with the journey store and the calls what
\* JourneyClient allows, so that what is proved of that holds here.
THEOREM PageImplementsClient == Spec => Client!Spec
<1>1. Init => Client!Init
  BY DEF Init
<1>2. [Next]_vars => [Client!Next]_Client!vars
  BY ClientStep DEF client, Client!vars, Client!journeys, Client!placing,
                    Client!objects, Client!calls
<1> QED
  BY <1>1, <1>2, PTL DEF Spec, Client!Spec

\* The steps that change a journey.
LEMMA JourneySteps ==
    [Client!Next]_client =>
        \/ UNCHANGED Client!journeys
        \/ Client!StartJourney \/ Client!HandleTypeSelect \/ Client!DeleteStore
        \/ Client!EndJourney \/ Client!HandleCloseSummary
        \/ \E l \in Local : Client!SyncAnswered(l)
        \/ \E n \in 1..MaxSubmits : Client!SubmitSucceeded(n)
  BY DEF Client!Next, Client!User, Client!Answer, Client!AnyServer, client,
         Client!journeys, Client!SetPlaceMode, Client!AddPoint,
         Client!HandleFinishPlace, Client!HandleCancelPlace,
         Client!HandleCancelTypeSelect, Client!HandleSubmitSummary, Client!Reload,
         Client!HandleDelete, Client!HandleRestore, Client!HandleSaveObject,
         Client!UpdateObject, Client!SyncFailed, Client!SyncIgnored,
         Client!SubmitFailed, Client!SubmitIgnored

\* There is one journey at a time on the page as well.
LEMMA OneJourneyStep == Client!OneJourney /\ [Client!Next]_client => Client!OneJourney'
<1> SUFFICES ASSUME Client!OneJourney, [Client!Next]_client PROVE Client!OneJourney'
  OBVIOUS
<1> USE DEF Client!OneJourney
<1>1. CASE UNCHANGED Client!journeys
  BY <1>1 DEF Client!journeys
<1>2. CASE Client!StartJourney \/ Client!HandleTypeSelect
  BY <1>2 DEF Client!StartJourney, Client!HandleTypeSelect
<1>3. CASE Client!DeleteStore \/ Client!EndJourney \/ Client!HandleCloseSummary
  BY <1>3 DEF Client!DeleteStore, Client!EndJourney, Client!HandleCloseSummary
<1>4. ASSUME NEW l \in Local, Client!SyncAnswered(l) PROVE Client!OneJourney'
  BY <1>4 DEF Client!SyncAnswered
<1>5. ASSUME NEW n \in 1..MaxSubmits, Client!SubmitSucceeded(n) PROVE Client!OneJourney'
  BY <1>5 DEF Client!SubmitSucceeded
<1> QED
  BY <1>1, <1>2, <1>3, <1>4, <1>5, JourneySteps

-----------------------------------------------------------------------------
(* Types of the store and its calls. *)

\* What is assumed of the constants of the page.
LEMMA PageConstants ==
    /\ Client!NoId \notin Report /\ Client!NoId \notin Object
    /\ Client!NoObject \notin Local /\ "null" \notin Report
    /\ MaxPoints \in Nat /\ MaxSubmits \in Nat
  BY ClientAssumptions DEF Client!ClientKeys, Client!ClientBounds

\* What it is most often needed for.
LEMMA PageBounds == Modes \subseteq {"point", "line", "area"} /\ MaxPoints \in Nat
  BY ClientAssumptions DEF Client!ClientBounds

\* A journey that got another id or more objects is still a journey, and none
\* of them is Null.
LEMMA JourneyKept ==
    ASSUME NEW j \in Client!Journey, NEW id \in Report \cup {Client!NoId}, NEW l \in Local
    PROVE  /\ j # Client!Null
           /\ [j EXCEPT !.id = id] \in Client!Journey
           /\ [j EXCEPT !.objects = @ \cup {l}] \in Client!Journey
<1>1. j.id # "null" /\ Client!Null.id = "null"
  BY PageConstants DEF Client!Journey, Client!Null, Client!NoId
<1>2. [j EXCEPT !.id = id] \in Client!Journey
  BY DEF Client!Journey
<1>3. [j EXCEPT !.objects = @ \cup {l}] \in Client!Journey
  BY DEF Client!Journey
<1> QED
  BY <1>1, <1>2, <1>3

\* What is sent of a journey has the type of a submission's entries.
LEMMA EntriesType ==
    ASSUME Client!TypeOK, NEW j \in Client!Journey
    PROVE  Client!EntriesOf(j) \in Client!Entries
  BY DEF Client!TypeOK, Client!Journey, Client!Entries, Client!EntriesOf

\* The calls that carry no data.
LEMMA BareCalls ==
    /\ \A state \in {"none", "asked", "answered", "refused", "over"} :
           Client!SyncIs(state) \in Client!SyncCall
    /\ \A state \in {"none", "asked", "accepted", "refused", "over"} :
           Client!SubmitIs(state) \in Client!SubmitCall
  BY
     DEF Client!SyncIs, Client!SubmitIs, Client!SyncCall, Client!SubmitCall,
         Client!NoEntries, Client!Entries

\* Each step keeps the types.
LEMMA ClientTypeStep == Client!TypeOK /\ [Client!Next]_client => Client!TypeOK'
<1> SUFFICES ASSUME Client!TypeOK, [Client!Next]_client PROVE Client!TypeOK'
  OBVIOUS
<1> USE DEF Client!TypeOK
<1>1. CASE Client!StartJourney
  BY <1>1
     DEF Client!StartJourney, Client!placing, Client!objects, Client!calls,
         Client!Journey
<1>2. CASE Client!SetPlaceMode
  BY <1>2 DEF Client!SetPlaceMode, Client!journeys, Client!objects, Client!calls
<1>3. CASE Client!AddPoint
  <2>1. currentObjectPoints' \in 0..MaxPoints
    BY <1>3, PageConstants DEF Client!AddPoint
  <2> QED
    BY <1>3, <2>1 DEF Client!AddPoint, Client!journeys, Client!objects, Client!calls
<1>4. CASE Client!HandleFinishPlace
  BY <1>4 DEF Client!HandleFinishPlace, Client!journeys, Client!objects, Client!calls
<1>5. CASE Client!HandleCancelPlace
  BY <1>5, PageConstants
     DEF Client!HandleCancelPlace, Client!journeys, Client!objects, Client!calls
<1>6. CASE Client!HandleCancelTypeSelect
  <2>1. showTypeSelector' \in BOOLEAN
    BY <1>6, Zenon DEF Client!HandleCancelTypeSelect
  <2>2. currentObjectPoints' \in 0..MaxPoints
    BY <1>6, PageConstants DEF Client!HandleCancelTypeSelect
  <2> QED
    BY <1>6, <2>1, <2>2
       DEF Client!HandleCancelTypeSelect, Client!journeys, Client!objects,
           Client!calls
<1>7. CASE Client!HandleTypeSelect
  <2>1. PICK l \in Local \ placed, online \in BOOLEAN :
           /\ placed' = placed \cup {l}
           /\ currentJourney' = [currentJourney EXCEPT !.objects = @ \cup {l}]
           /\ IF online
              THEN /\ sync' = [sync EXCEPT ![l] = [Client!SyncIs("asked") EXCEPT
                                                      !.journey = currentJourney.id]]
                   /\ syncing' = l
              ELSE UNCHANGED <<sync, syncing>>
    BY <1>7 DEF Client!HandleTypeSelect
  <2>2. currentJourney \in Client!Journey
    BY <1>7 DEF Client!HandleTypeSelect
  <2>3. currentJourney' \in Client!Journey
    BY <2>1, <2>2, JourneyKept
  <2>4. [Client!SyncIs("asked") EXCEPT !.journey = currentJourney.id] \in Client!SyncCall
    BY <2>2 DEF Client!SyncIs, Client!SyncCall, Client!Journey
  <2>5. sync' \in [Local -> Client!SyncCall] /\ syncing' \in Local \cup {Client!NoObject}
    BY <2>1, <2>4
  <2>6. showTypeSelector' \in BOOLEAN
    BY <1>7, Zenon DEF Client!HandleTypeSelect
  <2>7. currentObjectPoints' \in 0..MaxPoints
    BY <1>7, PageConstants DEF Client!HandleTypeSelect
  <2> QED
    BY <1>7, <2>1, <2>3, <2>5, <2>6, <2>7 DEF Client!HandleTypeSelect
<1>8. CASE Client!DeleteStore
  BY <1>8, PageConstants DEF Client!DeleteStore, Client!objects, Client!calls
<1>9. CASE Client!EndJourney
  BY <1>9, PageConstants DEF Client!EndJourney, Client!objects, Client!calls
<1>10. CASE Client!HandleCloseSummary
  BY <1>10 DEF Client!HandleCloseSummary, Client!placing, Client!objects, Client!calls
<1>11. CASE Client!HandleSubmitSummary
  <2>1. finishedJourney \in Client!Journey
    BY <1>11 DEF Client!HandleSubmitSummary
  <2>2. [state |-> "asked", journey |-> finishedJourney.id,
         entries |-> Client!EntriesOf(finishedJourney)] \in Client!SubmitCall
    BY <2>1, EntriesType DEF Client!SubmitCall, Client!Journey
  <2> QED
    BY <1>11, <2>2
       DEF Client!HandleSubmitSummary, Client!journeys, Client!placing,
           Client!objects
<1>12. CASE Client!Reload
  <2>1. showTypeSelector' \in BOOLEAN
    BY <1>12, Zenon DEF Client!Reload
  <2>2. submitting' \in 0..MaxSubmits
    BY <1>12, PageConstants DEF Client!Reload
  <2> QED
    BY <1>12, <2>1, <2>2 DEF Client!Reload, Client!journeys, Client!objects
<1>13. CASE \E l \in Local : Client!HandleDelete(l) \/ Client!HandleRestore(l) \/ Client!HandleSaveObject(l)
  BY <1>13
     DEF Client!HandleDelete, Client!HandleRestore, Client!HandleSaveObject,
         Client!UpdateObject,
               Client!journeys, Client!placing, Client!calls
<1>14. CASE Client!AnyServer
  <2>1. sync' \in [Local -> Client!SyncCall]
    <3>1. \A rp \in Report, o \in Object :
             [state |-> "answered", journey |-> rp, object |-> o] \in Client!SyncCall
      BY DEF Client!SyncCall
    <3> QED
      BY <1>14, <3>1, BareCalls DEF Client!AnyServer
  <2>2. submit' \in [1..MaxSubmits -> Client!SubmitCall]
    BY <1>14, BareCalls DEF Client!AnyServer
  <2> QED
    BY <1>14, <2>1, <2>2
       DEF Client!AnyServer, Client!journeys, Client!placing, Client!objects
<1>15. ASSUME NEW l \in Local, Client!SyncAnswered(l) PROVE Client!TypeOK'
  <2>1. sync[l].journey \in Report \cup {Client!NoId} /\ sync[l].object \in Object \cup {Client!NoId}
    BY DEF Client!SyncCall
  <2>2. currentJourney' \in Client!Journey \cup {Client!Null}
    <3>1. CASE currentJourney = Client!Null
      BY <1>15, <3>1 DEF Client!SyncAnswered
    <3>2. CASE currentJourney # Client!Null
      <4>1. currentJourney' = [currentJourney EXCEPT !.id = sync[l].journey]
        BY <1>15, <3>2 DEF Client!SyncAnswered
      <4> QED
        BY <2>1, <3>2, <4>1, JourneyKept
    <3> QED
      BY <3>1, <3>2
  <2>3. serverId' \in [Local -> Object \cup {Client!NoId}]
    BY <1>15, <2>1 DEF Client!SyncAnswered
  <2>4. sync' \in [Local -> Client!SyncCall] /\ syncing' \in Local \cup {Client!NoObject}
    BY <1>15, BareCalls DEF Client!SyncAnswered
  <2> QED
    BY <1>15, <2>2, <2>3, <2>4 DEF Client!SyncAnswered, Client!placing
<1>16. ASSUME NEW l \in Local, Client!SyncFailed(l) \/ Client!SyncIgnored(l) PROVE Client!TypeOK'
  BY <1>16, BareCalls
     DEF Client!SyncFailed, Client!SyncIgnored, Client!journeys, Client!placing,
         Client!objects
<1>17. ASSUME NEW n \in 1..MaxSubmits,
              Client!SubmitSucceeded(n) \/ Client!SubmitFailed(n) \/ Client!SubmitIgnored(n)
       PROVE  Client!TypeOK'
  BY <1>17, BareCalls, PageConstants
    
        DEF Client!SubmitSucceeded, Client!SubmitFailed, Client!SubmitIgnored,
            Client!journeys, Client!placing, Client!objects
<1>18. CASE UNCHANGED client
  BY <1>18
     DEF client
<1> QED
  BY <1>1, <1>2, <1>3, <1>4, <1>5, <1>6, <1>7, <1>8, <1>9, <1>10, <1>11, <1>12,
     <1>13, <1>14, <1>15, <1>16, <1>17, <1>18
        DEF Client!Next, Client!User, Client!Answer
-----------------------------------------------------------------------------
(* Types of objects. *)

\* What is selected fits the mode, which does not change under the selector.
Chosen ==
    /\ placed \subseteq Local
    /\ selectedType # NoType =>
           showTypeSelector /\ selectedType.geometry = placeMode /\ ~ selectedType.standard

\* A step that neither places an object nor shows the selector's choice.
LEMMA ShapesStay ==
    ASSUME TypeFits, Chosen, UNCHANGED <<placed, shape, selectedType>>,
           selectedType # NoType => showTypeSelector' /\ placeMode' = placeMode
    PROVE  TypeFits' /\ Chosen'
<1>1. TypeFits'
  BY DEF TypeFits
<1>2. Chosen'
  BY Zenon DEF Chosen
<1> QED
  BY <1>1, <1>2

\* Each step keeps both.
LEMMA TypeFitsStep == TypeFits /\ Chosen /\ [Next]_vars => TypeFits' /\ Chosen'
<1> SUFFICES ASSUME TypeFits, Chosen, [Next]_vars PROVE TypeFits' /\ Chosen'
  OBVIOUS
<1>1. ASSUME NEW t, HandleTypeSelect(t),
             t # NoType => t.geometry = placeMode /\ ~ t.standard
      PROVE  TypeFits' /\ Chosen'
  <2>1. PICK l \in Local \ placed : placed' = placed \cup {l}
    BY <1>1 DEF HandleTypeSelect, Client!HandleTypeSelect
  <2>2. shape' = [k \in Local |-> IF k = l THEN Placement(t) ELSE shape[k]]
    BY <1>1, <2>1 DEF HandleTypeSelect
  <2>3. \A k \in placed' : shape'[k] = IF k = l THEN Placement(t) ELSE shape[k]
    BY <2>1, <2>2 DEF Chosen
  <2>4. TypeFits'
    BY <1>1, <2>1, <2>3 DEF TypeFits, Placement
  <2>5. selectedType' = NoType
    BY <1>1 DEF HandleTypeSelect
  <2> QED
    BY <2>1, <2>4, <2>5 DEF Chosen
<1>2. CASE HandleConfirm \/ Skip
  <2>1. CASE HandleConfirm
    BY <1>1, <2>1 DEF HandleConfirm, Chosen
  <2>2. CASE Skip
    BY <1>1, <2>2 DEF Skip
  <2> QED
    BY <1>2, <2>1, <2>2
<1>3. ASSUME NEW t \in Type, SelectType(t) PROVE TypeFits' /\ Chosen'
  BY <1>3 DEF SelectType, SelectorShown, TypeFits, Chosen, client
<1>4. CASE CancelSelect \/ Reload
  <2>1. selectedType' = NoType /\ UNCHANGED <<placed, shape>>
    BY <1>4 DEF CancelSelect, Reload, Client!HandleCancelTypeSelect, Client!Reload,
                Client!objects, selector
  <2> QED
    BY <2>1 DEF TypeFits, Chosen
<1> DEFINE Calm == /\ UNCHANGED <<placed, shape, selectedType>>
                   /\ \/ showTypeSelector' = showTypeSelector /\ placeMode' = placeMode
                      \/ ~ showTypeSelector
<1>5. ASSUME Calm PROVE TypeFits' /\ Chosen'
  <2>1. selectedType # NoType => showTypeSelector
    BY Zenon DEF Chosen
  <2>2. selectedType # NoType => showTypeSelector' /\ placeMode' = placeMode
    BY <1>5, <2>1
  <2>3. UNCHANGED <<placed, shape, selectedType>>
    BY <1>5
  <2> QED
    BY <2>2, <2>3, ShapesStay, Zenon
<1>6. CASE StartJourney \/ Draw \/ EndJourney
  <2>1. CASE StartJourney
    BY <1>5, <2>1 DEF StartJourney, Client!StartJourney, selector, Client!objects,
                      Client!placing
  <2>2. CASE Draw
    <3>1. CASE Client!AddPoint
      BY <1>5, <2>2, <3>1 DEF Draw, Client!AddPoint, selector, Client!objects
    <3>2. CASE ~ Client!AddPoint
      BY <1>5, <2>2, <3>2, Zenon
         DEF Draw, Client!SetPlaceMode, Client!HandleFinishPlace,
             Client!HandleCancelPlace, Client!DeleteStore, Client!ControlsShown,
             selector, Client!objects
    <3> QED
      BY <3>1, <3>2
  <2>3. CASE EndJourney
    <3>1. UNCHANGED <<placed, shape, selectedType>>
      BY <2>3 DEF EndJourney, Client!EndJourney, selector, Client!objects
    <3>2. ~ showTypeSelector
      BY <2>3, Zenon DEF EndJourney, Client!EndJourney, Client!ControlsShown
    <3> QED
      BY <1>5, <3>1, <3>2
  <2> QED
    BY <1>6, <2>1, <2>2, <2>3
<1>7. CASE Summary
  <2>1. Calm
    BY <1>7 DEF Summary, SetJourneyTitle, HandleDeleteClick, HandleRestore,
                HandleEditObject, EditObject, ConfirmTimeout, CloseForm,
                HandleCloseSummary, HandleFinalize, Client!HandleDelete,
                Client!HandleRestore, Client!HandleSaveObject, Client!UpdateObject,
                Client!HandleCloseSummary, Client!HandleSubmitSummary, client,
                selector, Client!objects, Client!placing
  <2> QED
    BY <1>5, <2>1
<1>8. CASE Answers \/ AnyServer
  <2>1. Calm
    BY <1>8 DEF Answers, SubmitAnswered, SyncReturns, AnyServer, Client!AnyServer,
                Client!SyncAnswered, Client!SyncFailed, Client!SyncIgnored,
                Client!SubmitSucceeded, Client!SubmitFailed, Client!SubmitIgnored,
                selector, Client!objects, Client!placing
  <2> QED
    BY <1>5, <2>1
<1>9. CASE UNCHANGED vars \/ (Browser /\ ~ Reload)
  <2>1. Calm
    BY <1>9 DEF vars, Browser, GoOnline, GoOffline, FetchTypes, RefetchTypes,
                FeedArrives, client, selector
  <2> QED
    BY <1>5, <2>1
<1> QED
  BY <1>2, <1>3, <1>4, <1>6, <1>7, <1>8, <1>9 DEF Next, Controls, Browser

\* The type of an object is one for its geometry, although the mode is the store's,
\* outlives the selector and the page, and the choice is the selector's.
THEOREM TypesFit == Spec => []TypeFits
<1>1. Init => TypeFits /\ Chosen
  BY DEF Init, Client!Init, TypeFits, Chosen
<1> QED
  BY <1>1, TypeFitsStep, PTL DEF Spec

-----------------------------------------------------------------------------
(* Drawing. *)

\* A shape with the points its geometry asks for.
FullShape(s) ==
    /\ s.geometry \in Modes /\ s.points \in Nat
    /\ s.points >= Client!MinimumPoints(s.geometry)

\* Points are drawn in a mode, and the selector is shown when there are enough of
\* them.
Drawing ==
    /\ placeMode \in Modes \cup {"none"} /\ currentObjectPoints \in 0..MaxPoints
    /\ currentObjectPoints > 0 => placeMode # "none"
    /\ showTypeSelector => /\ placeMode # "none"
                           /\ currentObjectPoints >= Client!MinimumPoints(placeMode)

IsJourney(j) == j = [id |-> j.id, objects |-> j.objects]

\* The journeys hold objects that were placed, each with a full shape.
Shaped ==
    /\ placed \subseteq Local
    /\ \A l \in placed : FullShape(shape[l])
    /\ IsJourney(currentJourney) /\ currentJourney.objects \subseteq placed
    /\ IsJourney(finishedJourney) /\ finishedJourney.objects \subseteq placed

\* What has the points it needs has the corners it needs, once there are types.
LEMMA FullIsDrawn ==
    ASSUME NEW s, FullShape(s), HaveTypes
    PROVE  Corners(s) >= Client!MinimumPoints(s.geometry)
<1>1. s.geometry \in {"point", "line", "area"} /\ s.points \in Nat
  BY PageBounds DEF FullShape
<1>2. TypeOf(s) # NoType
  BY <1>1 DEF TypeOf, NoType
<1>3. s.points >= Client!MinimumPoints(s.geometry)
  BY DEF FullShape
<1> QED
  BY <1>1, <1>2, <1>3 DEF Corners, Client!MinimumPoints

\* What both invariants say of the map.
LEMMA DrawnFromShapes == Drawing /\ Shaped => PlacedIsDrawn
<1> SUFFICES ASSUME Drawing, Shaped, HaveTypes
             PROVE  /\ \A s \in Blue : Corners(s) >= Client!MinimumPoints(s.geometry)
                    /\ \A s \in Red : Corners(s) > 0
  BY DEF PlacedIsDrawn
<1>1. ASSUME NEW s \in Blue PROVE Corners(s) >= Client!MinimumPoints(s.geometry)
  <2>1. FullShape(s)
    BY <1>1 DEF Blue, Shaped
  <2> QED
    BY <2>1, FullIsDrawn
<1>2. ASSUME NEW s \in Red PROVE Corners(s) > 0
  <2>1. /\ s.geometry = placeMode /\ s.points = currentObjectPoints
        /\ s.type = NoType /\ currentObjectPoints # 0
    BY <1>2 DEF Red
  <2>2. s.points \in Nat /\ s.points > 0 /\ s.geometry \in {"point", "line", "area"}
    BY <2>1, PageBounds DEF Drawing
  <2>3. TypeOf(s) # NoType
    BY <2>2, <2>1 DEF TypeOf, NoType
  <2> QED
    BY <2>2, <2>3 DEF Corners
<1> QED
  BY <1>1, <1>2

\* Each step of the store keeps what is drawn in a mode.
LEMMA DrawingStep == Drawing /\ [Client!Next]_client => Drawing'
<1> SUFFICES ASSUME Drawing, [Client!Next]_client PROVE Drawing'
  OBVIOUS
<1> DEFINE Points == currentObjectPoints
<1>p. Points \in Nat /\ MaxPoints \in Nat /\ Points \in 0..MaxPoints
  BY PageBounds DEF Drawing
<1>m. placeMode \in Modes \cup {"none"} /\ Modes \subseteq {"point", "line", "area"}
  BY PageBounds DEF Drawing
<1>1. ASSUME UNCHANGED Client!placing PROVE Drawing'
  BY <1>1 DEF Drawing, Client!placing
<1>2. ASSUME ~ showTypeSelector', Points' = 0, placeMode' \in {placeMode, "none"}
      PROVE  Drawing'
  BY <1>2, <1>p, <1>m DEF Drawing
<1>3. CASE Client!SetPlaceMode
  <2>1. ~ showTypeSelector' /\ Points' = Points /\ placeMode' \in Modes
    BY <1>3, Zenon DEF Client!SetPlaceMode, Client!ControlsShown
  <2> QED
    BY <2>1, <1>p, <1>m DEF Drawing
<1>4. CASE Client!AddPoint
  <2>1. /\ placeMode' = placeMode /\ placeMode # "none" /\ Points < MaxPoints
        /\ Points' = IF placeMode = "point" THEN 1 ELSE Points + 1
    BY <1>4 DEF Client!AddPoint
  <2>2. showTypeSelector' = showTypeSelector
    BY <1>4 DEF Client!AddPoint
  <2>3. Points' \in 0..MaxPoints
    BY <2>1, <1>p
  <2>4. showTypeSelector => Points >= Client!MinimumPoints(placeMode)
    BY DEF Drawing
  <2>5. Points >= Client!MinimumPoints(placeMode) =>
            Points' >= Client!MinimumPoints(placeMode')
    BY <2>1, <1>p, <1>m DEF Client!MinimumPoints
  <2> QED
    BY <2>1, <2>2, <2>3, <2>4, <2>5, <1>m DEF Drawing
<1>5. CASE Client!HandleFinishPlace
  <2>1. CASE Points = 0 /\ placeMode' = "none"
             /\ UNCHANGED <<currentObjectPoints, showTypeSelector>>
    <3>1. ~ showTypeSelector
      BY <1>5, Zenon DEF Client!HandleFinishPlace, Client!ControlsShown
    <3> QED
      BY <2>1, <3>1, <1>2
  <2>2. CASE Points >= Client!MinimumPoints(placeMode)
             /\ UNCHANGED <<placeMode, currentObjectPoints>>
    BY <1>5, <2>2, <1>p DEF Drawing, Client!HandleFinishPlace
  <2> QED
    BY <1>5, <2>1, <2>2 DEF Client!HandleFinishPlace
<1>6. CASE Client!HandleCancelPlace \/ Client!DeleteStore \/ Client!EndJourney
  <2>1. ~ showTypeSelector /\ showTypeSelector' = showTypeSelector
    BY <1>6, Zenon DEF Client!HandleCancelPlace, Client!DeleteStore,
                       Client!EndJourney, Client!ControlsShown
  <2>2. Points' = 0 /\ placeMode' \in {placeMode, "none"}
    BY <1>6 DEF Client!HandleCancelPlace, Client!DeleteStore, Client!EndJourney
  <2> QED
    BY <2>1, <2>2, <1>2
<1>7. CASE Client!HandleCancelTypeSelect \/ Client!HandleTypeSelect
  BY <1>7, <1>2 DEF Client!HandleCancelTypeSelect, Client!HandleTypeSelect
<1>8. CASE Client!Reload
  <2>1. showTypeSelector' = FALSE /\ UNCHANGED <<placeMode, currentObjectPoints>>
    BY <1>8 DEF Client!Reload
  <2> QED
    BY <2>1 DEF Drawing
<1>9. CASE \/ Client!StartJourney \/ Client!HandleCloseSummary
           \/ Client!HandleSubmitSummary \/ Client!AnyServer \/ Client!Answer
           \/ \E l \in Local : Client!HandleDelete(l) \/ Client!HandleRestore(l)
                             \/ Client!HandleSaveObject(l)
  BY <1>1, <1>9
     DEF Client!StartJourney, Client!HandleCloseSummary, Client!HandleSubmitSummary,
         Client!AnyServer, Client!Answer, Client!HandleDelete, Client!HandleRestore,
         Client!HandleSaveObject, Client!UpdateObject, Client!SyncAnswered,
         Client!SyncFailed, Client!SyncIgnored, Client!SubmitSucceeded,
         Client!SubmitFailed, Client!SubmitIgnored
<1>10. CASE UNCHANGED client
  BY <1>1, <1>10 DEF client, Client!placing
<1> QED
  BY <1>3, <1>4, <1>5, <1>6, <1>7, <1>8, <1>9, <1>10 DEF Client!Next, Client!User

\* A step that places nothing keeps the shapes, if its journeys are the old ones,
\* handed on, started anew or given an id.
LEMMA ShapedStays ==
    ASSUME Shaped, UNCHANGED <<placed, shape>>,
           IsJourney(currentJourney'), currentJourney'.objects \subseteq placed,
           IsJourney(finishedJourney'), finishedJourney'.objects \subseteq placed
    PROVE  Shaped'
  BY DEF Shaped, FullShape, IsJourney, Client!MinimumPoints

\* The steps that do not place an object leave the journeys well formed.
LEMMA JourneysStay ==
    ASSUME Shaped, [Client!Next]_client, placed' = placed
    PROVE  /\ IsJourney(currentJourney') /\ currentJourney'.objects \subseteq placed
           /\ IsJourney(finishedJourney') /\ finishedJourney'.objects \subseteq placed
<1> DEFINE Fine(j) == IsJourney(j) /\ j.objects \subseteq placed
<1>1. Fine(currentJourney) /\ Fine(finishedJourney)
  BY DEF Shaped
<1>2. Fine(Null) /\ Fine(Client!Null) /\ Fine([id |-> Client!NoId, objects |-> {}])
  BY DEF IsJourney, Null, Client!Null
<1>3. ~ Client!HandleTypeSelect
  BY DEF Client!HandleTypeSelect
<1>4. Fine(currentJourney') /\ Fine(finishedJourney')
  <2>1. CASE UNCHANGED Client!journeys
    <3>1. currentJourney' = currentJourney /\ finishedJourney' = finishedJourney
      BY <2>1 DEF Client!journeys
    <3> QED
      BY <3>1, <1>1
  <2>2. CASE Client!StartJourney
    <3>1. /\ currentJourney' = [id |-> Client!NoId, objects |-> {}]
          /\ finishedJourney' = finishedJourney
      BY <2>2 DEF Client!StartJourney
    <3> QED
      BY <3>1, <1>1, <1>2
  <2>3. CASE Client!DeleteStore \/ Client!EndJourney \/ Client!HandleCloseSummary
    <3>1. /\ currentJourney' \in {Client!Null, finishedJourney}
          /\ finishedJourney' \in {Client!Null, currentJourney}
      BY <2>3 DEF Client!DeleteStore, Client!EndJourney, Client!HandleCloseSummary
    <3> QED
      BY <3>1, <1>1, <1>2
  <2>4. ASSUME NEW l \in Local, Client!SyncAnswered(l)
        PROVE  Fine(currentJourney') /\ Fine(finishedJourney')
    <3>1. finishedJourney' = finishedJourney
      BY <2>4 DEF Client!SyncAnswered
    <3>2. \/ currentJourney' = currentJourney
          \/ currentJourney' = [currentJourney EXCEPT !.id = sync[l].journey]
      BY <2>4 DEF Client!SyncAnswered
    <3>3. Fine([currentJourney EXCEPT !.id = sync[l].journey])
      BY <1>1 DEF IsJourney
    <3> QED
      BY <3>1, <3>2, <3>3, <1>1
  <2>5. ASSUME NEW n \in 1..MaxSubmits, Client!SubmitSucceeded(n)
        PROVE  Fine(currentJourney') /\ Fine(finishedJourney')
    <3>1. finishedJourney' = Client!Null /\ currentJourney' = currentJourney
      BY <2>5 DEF Client!SubmitSucceeded
    <3> QED
      BY <3>1, <1>1, <1>2
  <2> QED
    BY <2>1, <2>2, <2>3, <2>4, <2>5, <1>3, JourneySteps
<1> QED
  BY <1>4

\* Only placing an object gives it a shape.
LEMMA ShapeSteps ==
    [Next]_vars => UNCHANGED <<placed, shape>> \/ \E t : HandleTypeSelect(t)
<1> SUFFICES ASSUME [Next]_vars
             PROVE  UNCHANGED <<placed, shape>> \/ \E t : HandleTypeSelect(t)
  OBVIOUS
<1> USE DEF Client!objects, Client!placing, selector, client
<1>1. CASE HandleConfirm \/ Skip
  BY <1>1 DEF HandleConfirm, Skip
<1>2. CASE \/ StartJourney \/ Draw \/ CancelSelect \/ EndJourney
           \/ \E t \in Type : SelectType(t)
  BY <1>2 DEF StartJourney, Draw, CancelSelect, EndJourney, SelectType,
              Client!StartJourney, Client!SetPlaceMode, Client!AddPoint,
              Client!HandleFinishPlace, Client!HandleCancelPlace, Client!DeleteStore,
              Client!HandleCancelTypeSelect, Client!EndJourney
<1>3. CASE Summary
  BY <1>3 DEF Summary, SetJourneyTitle, HandleDeleteClick, HandleRestore,
              HandleEditObject, EditObject, ConfirmTimeout, CloseForm,
              HandleCloseSummary, HandleFinalize, Client!HandleDelete,
              Client!HandleRestore, Client!HandleSaveObject, Client!UpdateObject,
              Client!HandleCloseSummary, Client!HandleSubmitSummary
<1>4. CASE Answers \/ AnyServer
  BY <1>4 DEF Answers, SubmitAnswered, SyncReturns, AnyServer, Client!AnyServer,
              Client!SyncAnswered, Client!SyncFailed, Client!SyncIgnored,
              Client!SubmitSucceeded, Client!SubmitFailed, Client!SubmitIgnored
<1>5. CASE Browser \/ UNCHANGED vars
  BY <1>5 DEF Browser, GoOnline, GoOffline, FetchTypes, RefetchTypes, FeedArrives,
              Reload, Client!Reload, vars
<1> QED
  BY <1>1, <1>2, <1>3, <1>4, <1>5 DEF Next, Controls

\* Each step keeps the shapes.
LEMMA ShapedStep == Drawing /\ Shaped /\ [Next]_vars => Shaped'
<1> SUFFICES ASSUME Drawing, Shaped, [Next]_vars PROVE Shaped'
  OBVIOUS
<1>1. ASSUME NEW t, HandleTypeSelect(t) PROVE Shaped'
  <2>1. PICK l \in Local \ placed :
            /\ placed' = placed \cup {l}
            /\ currentJourney' = [currentJourney EXCEPT !.objects = @ \cup {l}]
    BY <1>1 DEF HandleTypeSelect, Client!HandleTypeSelect
  <2>2. shape' = [k \in Local |-> IF k = l THEN Placement(t) ELSE shape[k]]
    BY <1>1, <2>1 DEF HandleTypeSelect
  <2>3. FullShape(Placement(t))
    BY <1>1, PageBounds DEF HandleTypeSelect, Client!HandleTypeSelect, Drawing, FullShape, Placement
  <2>4. placed' \subseteq Local
    BY <2>1 DEF Shaped
  <2>5. ASSUME NEW k \in placed' PROVE FullShape(shape'[k])
    BY <2>1, <2>2, <2>3, <2>4 DEF Shaped
  <2>6. IsJourney(currentJourney') /\ currentJourney'.objects \subseteq placed'
    BY <2>1 DEF Shaped, IsJourney
  <2>7. IsJourney(finishedJourney') /\ finishedJourney'.objects \subseteq placed'
    BY <1>1, <2>1 DEF HandleTypeSelect, Client!HandleTypeSelect, Shaped, IsJourney
  <2> QED
    BY <2>4, <2>5, <2>6, <2>7 DEF Shaped, FullShape, IsJourney
<1>2. CASE UNCHANGED <<placed, shape>>
  BY <1>2, ClientStep, JourneysStay, ShapedStays
<1> QED
  BY <1>1, <1>2, ShapeSteps

\* Once there are types, every object of the journey and what is being drawn is on
\* the map with its corners, placed without types or with one.
THEOREM PlacedDrawn == Spec => []PlacedIsDrawn
<1>1. Init => Drawing /\ Shaped
  <2>1. Init => Drawing
    BY PageBounds DEF Init, Client!Init, Drawing
  <2>2. Init => Shaped
    BY DEF Init, Client!Init, Shaped, IsJourney, Client!Null
  <2> QED
    BY <2>1, <2>2
<1>2. Drawing /\ Shaped /\ [Next]_vars => Drawing' /\ Shaped'
  BY ClientStep, DrawingStep, ShapedStep
<1> QED
  BY <1>1, <1>2, DrawnFromShapes, PTL DEF Spec

-----------------------------------------------------------------------------
(* Types of the page. *)

\* What an object is placed as.
Shape == [geometry : Modes, points : 1..MaxPoints, type : Type \cup {NoType}]

\* The types of what the components keep, and of what the browser does.
PageTypes ==
    /\ onLine \in BOOLEAN /\ types \in TypesState
    /\ selectedType \in Type \cup {NoType}
    /\ shape \in [Local -> Shape \cup {NoShape}]
    /\ described \in SUBSET Local
    /\ editingObjectId \in Local \cup {NoObject}
    /\ deleteConfirmId \in Local \cup {NoObject}
    /\ storedTitle \in BOOLEAN /\ journeyTitle \in BOOLEAN
    /\ isError \in BOOLEAN /\ seenOnLine \in BOOLEAN

\* A rendering keeps the types.
LEMMA RenderTypes == Renders => seenOnLine' \in BOOLEAN
  BY Zenon DEF Renders

\* Only the browser and the object types change.
LEMMA BrowserTypes ==
    ASSUME PageTypes, GoOnline \/ GoOffline \/ FetchTypes \/ RefetchTypes \/ FeedArrives
    PROVE  PageTypes'
<1>1. UNCHANGED <<selector, form, table, isError>>
  BY DEF GoOnline, GoOffline, FetchTypes, RefetchTypes, FeedArrives, summary
<1>2. onLine' \in BOOLEAN
  BY Zenon DEF PageTypes, GoOnline, GoOffline, FetchTypes, RefetchTypes, FeedArrives, browser
<1>3. types' \in TypesState
  BY DEF PageTypes, GoOnline, GoOffline, FetchTypes, RefetchTypes, FeedArrives, browser,
         TypesState
<1>4. seenOnLine' \in BOOLEAN
  <2>1. CASE seenOnLine' = seenOnLine
    BY <2>1 DEF PageTypes
  <2>2. CASE Renders
    BY <2>2, RenderTypes
  <2> QED
    BY <2>1, <2>2 DEF GoOnline, GoOffline, FetchTypes, RefetchTypes, FeedArrives, summary
<1> QED
  BY <1>1, <1>2, <1>3, <1>4 DEF PageTypes, selector, form, table

\* An object is placed with a type, in a mode and with the points drawn.
LEMMA PlacingTypes ==
    ASSUME PageTypes, Drawing, NEW t \in Type \cup {NoType}, HandleTypeSelect(t)
    PROVE  PageTypes'
<1>1. placeMode \in Modes /\ currentObjectPoints \in 1..MaxPoints
  BY PageBounds DEF HandleTypeSelect, Client!HandleTypeSelect, Drawing, Client!MinimumPoints
<1>2. Placement(t) \in Shape
  BY <1>1 DEF Placement, Shape
<1>3. shape' \in [Local -> Shape \cup {NoShape}]
  BY <1>2 DEF HandleTypeSelect, PageTypes
<1>4. selectedType' = NoType /\ UNCHANGED <<browser, form, table, summary>>
  BY DEF HandleTypeSelect
<1> QED
  BY <1>3, <1>4 DEF PageTypes, browser, form, table, summary

\* Each step of the controls keeps the types.
LEMMA ControlTypes == ASSUME PageTypes, Drawing, Controls PROVE PageTypes'
<1>1. CASE HandleConfirm \/ Skip
  BY <1>1, PlacingTypes DEF HandleConfirm, Skip, PageTypes
<1>2. CASE StartJourney \/ Draw \/ CancelSelect \/ \E t \in Type : SelectType(t)
  <2>1. UNCHANGED <<browser, shape, journeyTitle, table, summary>>
    BY <1>2 DEF StartJourney, Draw, CancelSelect, SelectType, selector, form
  <2>2. storedTitle' \in {FALSE, storedTitle}
    BY <1>2 DEF StartJourney, Draw, CancelSelect, SelectType, form
  <2>3. selectedType' \in Type \cup {NoType}
    BY <1>2 DEF StartJourney, Draw, CancelSelect, SelectType, selector, PageTypes
  <2>4. storedTitle' \in BOOLEAN
    BY <2>2 DEF PageTypes
  <2> QED
    BY <2>1, <2>3, <2>4 DEF PageTypes, browser, table, summary
<1>3. CASE EndJourney
  BY <1>3, RenderTypes DEF EndJourney, PageTypes, browser, selector, table
<1> QED
  BY <1>1, <1>2, <1>3 DEF Controls

\* Each step of the summary keeps the types.
LEMMA SummaryTypes == ASSUME PageTypes, Summary PROVE PageTypes'
<1>1. UNCHANGED <<browser, selector>>
  BY DEF Summary, SetJourneyTitle, HandleDeleteClick, HandleRestore, HandleEditObject,
         EditObject, ConfirmTimeout, CloseForm, HandleCloseSummary, HandleFinalize
<1>2. storedTitle' \in BOOLEAN /\ journeyTitle' \in BOOLEAN
  <2>1. ASSUME NEW entered \in BOOLEAN, SetJourneyTitle(entered)
        PROVE  storedTitle' \in BOOLEAN /\ journeyTitle' \in BOOLEAN
    BY <2>1 DEF SetJourneyTitle
  <2>2. CASE UNCHANGED form
    BY <2>2 DEF form, PageTypes
  <2> QED
    BY <2>1, <2>2 DEF Summary, HandleDeleteClick, HandleRestore, HandleEditObject,
                      EditObject, ConfirmTimeout, CloseForm, HandleCloseSummary,
                      HandleFinalize
<1>3. /\ described' \in SUBSET Local
      /\ editingObjectId' \in Local \cup {NoObject}
      /\ deleteConfirmId' \in Local \cup {NoObject}
  BY DEF Summary, SetJourneyTitle, HandleDeleteClick, HandleRestore, HandleEditObject,
         EditObject, ConfirmTimeout, CloseForm, HandleCloseSummary, HandleFinalize,
         FormsClosed, table, PageTypes
<1>4. isError' \in {isError, FALSE}
  BY DEF Summary, SetJourneyTitle, HandleDeleteClick, HandleRestore, HandleEditObject,
         EditObject, ConfirmTimeout, CloseForm, HandleCloseSummary, HandleFinalize
<1>5. seenOnLine' \in {seenOnLine, FALSE} \/ Renders
  BY DEF Summary, SetJourneyTitle, HandleDeleteClick, HandleRestore, HandleEditObject,
         EditObject, ConfirmTimeout, CloseForm, HandleCloseSummary, HandleFinalize,
         FormsClosed
<1>6. isError' \in BOOLEAN /\ seenOnLine' \in BOOLEAN
  BY <1>4, <1>5, RenderTypes DEF PageTypes
<1> QED
  BY <1>1, <1>2, <1>3, <1>6 DEF PageTypes, browser, selector

\* Each step keeps the types.
LEMMA PageTypesStep == PageTypes /\ Drawing /\ [Next]_vars => PageTypes'
<1> SUFFICES ASSUME PageTypes, Drawing, [Next]_vars PROVE PageTypes'
  OBVIOUS
<1>1. CASE Controls
  BY <1>1, ControlTypes
<1>2. CASE Summary
  BY <1>2, SummaryTypes
<1>3. CASE Answers \/ AnyServer
  <2>1. UNCHANGED <<browser, selector, form, described>>
    BY <1>3 DEF Answers, SubmitAnswered, SyncReturns, AnyServer, FormsClosed, table
  <2>2. /\ editingObjectId' \in {editingObjectId, NoObject}
        /\ deleteConfirmId' \in {deleteConfirmId, NoObject}
    BY <1>3 DEF Answers, SubmitAnswered, SyncReturns, AnyServer, FormsClosed, table
  <2>3. isError' \in {isError, TRUE} /\ (seenOnLine' \in {seenOnLine, FALSE} \/ Renders)
    BY <1>3 DEF Answers, SubmitAnswered, SyncReturns, AnyServer, FormsClosed, summary
  <2>4. isError' \in BOOLEAN /\ seenOnLine' \in BOOLEAN
    BY <2>3, RenderTypes DEF PageTypes
  <2> QED
    BY <2>1, <2>2, <2>4 DEF PageTypes, browser, selector, form
<1>4. CASE Browser
  <2>1. CASE Reload
    <3>1. types' \in TypesState /\ UNCHANGED <<onLine, shape, described, storedTitle>>
      BY <2>1 DEF Reload, TypesState
    <3> QED
      BY <2>1, <3>1, RenderTypes DEF Reload, PageTypes
  <2> QED
    BY <1>4, <2>1, BrowserTypes DEF Browser
<1>5. CASE UNCHANGED vars
  BY <1>5 DEF vars, browser, selector, form, table, summary, PageTypes
<1> QED
  BY <1>1, <1>2, <1>3, <1>4, <1>5 DEF Next

\* The two parts of the type invariant.
LEMMA TypeParts == TypeOK <=> Client!TypeOK /\ PageTypes
<1>1. {storedTitle, journeyTitle, isError, seenOnLine} \subseteq BOOLEAN
      <=> /\ storedTitle \in BOOLEAN /\ journeyTitle \in BOOLEAN
          /\ isError \in BOOLEAN /\ seenOnLine \in BOOLEAN
  BY Zenon
<1> QED
  BY <1>1, Zenon DEF TypeOK, PageTypes, Shape

\* Every variable of the page keeps its type: what is placed is an object of one of
\* the modes, with the points that were drawn, however the page got there.
THEOREM PageTypeCorrect == Spec => []TypeOK
<1>1. Init => Client!TypeOK /\ PageTypes /\ Drawing
  <2>1. Init => Client!TypeOK
    <3>1. Init => showTypeSelector \in BOOLEAN
      BY Zenon DEF Init, Client!Init
    <3> QED
      BY <3>1, PageConstants, BareCalls DEF Init, Client!Init, Client!TypeOK
  <2>2. Init => PageTypes
    <3>1. Init => /\ onLine \in BOOLEAN /\ storedTitle \in BOOLEAN
                  /\ journeyTitle \in BOOLEAN /\ isError \in BOOLEAN
                  /\ seenOnLine \in BOOLEAN
      BY Zenon DEF Init
    <3>2. Init => /\ types \in TypesState /\ selectedType \in Type \cup {NoType}
                  /\ shape \in [Local -> Shape \cup {NoShape}]
                  /\ described \in SUBSET Local
                  /\ editingObjectId \in Local \cup {NoObject}
                  /\ deleteConfirmId \in Local \cup {NoObject}
      BY DEF Init, TypesState
    <3> QED
      BY <3>1, <3>2 DEF PageTypes
  <2>3. Init => Drawing
    BY PageBounds DEF Init, Client!Init, Drawing
  <2> QED
    BY <2>1, <2>2, <2>3
<1>2. Client!TypeOK /\ PageTypes /\ Drawing /\ [Next]_vars
      => Client!TypeOK' /\ PageTypes' /\ Drawing'
  BY ClientStep, ClientTypeStep, PageTypesStep, DrawingStep
<1> QED
  BY <1>1, <1>2, TypeParts, PTL DEF Spec

-----------------------------------------------------------------------------
(* The summary. *)

\* The summary is closed, or its journey and its forms stay as they are.
LEMMA SummaryStays ==
    ASSUME SummaryIsOfJourney,
           \/ finishedJourney' = Null /\ editingObjectId' = NoObject
              /\ deleteConfirmId' = NoObject
           \/ UNCHANGED <<finishedJourney, form, deleted, editingObjectId, deleteConfirmId>>
    PROVE  SummaryIsOfJourney'
  BY DEF SummaryIsOfJourney, Listed, form, Null

\* A journey is sent from a form with a title.
Titled == submitting' \notin {0, submitting} => storedTitle

\* Each step keeps the summary about its journey, and sends it with a title.
LEMMA SummaryStep ==
    SummaryIsOfJourney /\ Client!OneJourney /\ [Next]_vars => SummaryIsOfJourney' /\ Titled
<1> SUFFICES ASSUME SummaryIsOfJourney, Client!OneJourney, [Next]_vars
             PROVE  SummaryIsOfJourney' /\ Titled
  OBVIOUS
<1> USE DEF Titled
<1> DEFINE Quiet == UNCHANGED <<finishedJourney, form, deleted, editingObjectId,
                                deleteConfirmId, submitting>>
\* Without a summary there is no form.
<1>n. finishedJourney = Null => editingObjectId = NoObject /\ deleteConfirmId = NoObject
  BY DEF SummaryIsOfJourney
<1>o. currentJourney # Null => finishedJourney = Null
  BY DEF Client!OneJourney, Null
<1>1. ASSUME Quiet PROVE SummaryIsOfJourney' /\ Titled
  BY <1>1, SummaryStays
<1>2. CASE StartJourney
  <2>1. finishedJourney' = Null
    BY <1>2 DEF StartJourney, Client!StartJourney, Null
  <2>2. UNCHANGED <<editingObjectId, deleteConfirmId, submitting, finishedJourney>>
    BY <1>2 DEF StartJourney, Client!StartJourney, table, Client!calls
  <2> QED
    BY <1>n, <2>1, <2>2, SummaryStays
<1>3. CASE Draw
  <2>1. CASE Client!DeleteStore
    <3>1. currentJourney # Null /\ finishedJourney' = Null
      BY <2>1 DEF Client!DeleteStore, Client!ControlsShown, Null
    <3>2. UNCHANGED <<editingObjectId, deleteConfirmId, submitting>>
      BY <1>3, <2>1 DEF Draw, Client!DeleteStore, table, Client!calls
    <3> QED
      BY <1>n, <1>o, <3>1, <3>2, SummaryStays
  <2>2. CASE ~ Client!DeleteStore
    BY <1>1, <1>3, <2>2
       DEF Draw, Client!SetPlaceMode, Client!AddPoint, Client!HandleFinishPlace,
           Client!HandleCancelPlace, form, table, Client!journeys, Client!objects,
           Client!calls
  <2> QED
    BY <2>1, <2>2
<1>4. CASE HandleConfirm \/ Skip \/ CancelSelect \/ \E t \in Type : SelectType(t)
  BY <1>1, <1>4 DEF HandleConfirm, Skip, HandleTypeSelect, CancelSelect, SelectType,
                    Client!HandleTypeSelect, Client!HandleCancelTypeSelect, form, table,
                    client, Client!journeys, Client!objects, Client!calls
<1>5. CASE EndJourney
  <2>1. finishedJourney = Null
    BY <1>5, <1>o DEF EndJourney, Client!EndJourney, Client!ControlsShown, Null
  <2>2. UNCHANGED <<editingObjectId, deleteConfirmId, submitting>>
    BY <1>5 DEF EndJourney, Client!EndJourney, table, Client!calls
  <2>3. journeyTitle' = storedTitle /\ storedTitle' = storedTitle
    BY <1>5 DEF EndJourney
  <2> QED
    BY <1>n, <2>1, <2>2, <2>3 DEF SummaryIsOfJourney
<1>6. ASSUME NEW entered, SetJourneyTitle(entered) PROVE SummaryIsOfJourney' /\ Titled
  BY <1>6 DEF SetJourneyTitle, SummaryIsOfJourney, Listed, client, table
<1>7. ASSUME NEW l \in Local, HandleDeleteClick(l) PROVE SummaryIsOfJourney' /\ Titled
  <2>1. Listed(l) /\ l \notin deleted /\ UNCHANGED <<form, editingObjectId>>
    BY <1>7 DEF HandleDeleteClick, HasRow
  <2>2. UNCHANGED <<finishedJourney, submitting>>
    BY <1>7 DEF HandleDeleteClick, Client!HandleDelete, Client!UpdateObject,
                client, Client!journeys, Client!calls
  <2>3. \/ deleteConfirmId' = NoObject
        \/ deleteConfirmId' = l /\ deleted' = deleted
    BY <1>7 DEF HandleDeleteClick, client
  <2> QED
    BY <2>1, <2>2, <2>3 DEF SummaryIsOfJourney, Listed, form
<1>8. ASSUME NEW l \in Local, HandleRestore(l) PROVE SummaryIsOfJourney' /\ Titled
  BY <1>8 DEF HandleRestore, Client!HandleRestore, Client!UpdateObject, SummaryIsOfJourney,
              Listed, form, table, Client!journeys, Client!calls
<1>9. ASSUME NEW l \in Local, HandleEditObject(l) \/ EditObject(l)
      PROVE  SummaryIsOfJourney' /\ Titled
  <2>1. UNCHANGED <<finishedJourney, deleted, form, deleteConfirmId, submitting>>
    BY <1>9 DEF HandleEditObject, EditObject, Client!HandleSaveObject,
                Client!UpdateObject, client, table, Client!journeys, Client!calls
  <2>2. Listed(l) /\ (editingObjectId' = l \/ editingObjectId' = editingObjectId)
    BY <1>9 DEF HandleEditObject, EditObject, HasRow, table
  <2> QED
    BY <2>1, <2>2 DEF SummaryIsOfJourney, Listed, form
<1>10. CASE ConfirmTimeout \/ CloseForm
  BY <1>10 DEF ConfirmTimeout, CloseForm, SummaryIsOfJourney, Listed, client, form
<1>11. CASE HandleCloseSummary
  BY <1>11, SummaryStays
     DEF HandleCloseSummary, Client!HandleCloseSummary, FormsClosed, Null, Client!calls
<1>12. CASE HandleFinalize
  <2>1. CASE onLine
    <3>1. UNCHANGED <<finishedJourney, deleted, form, table>>
      BY <1>12, <2>1 DEF HandleFinalize, Client!HandleSubmitSummary, Client!journeys,
                         Client!objects
    <3>2. journeyTitle /\ journeyTitle = storedTitle
      BY <1>12 DEF HandleFinalize, CanSubmit, SummaryIsOfJourney
    <3> QED
      BY <3>1, <3>2, SummaryStays DEF table
  <2>2. CASE ~ onLine
    BY <1>12, <2>2, SummaryStays
       DEF HandleFinalize, Client!HandleCloseSummary, FormsClosed, Null, Client!calls
  <2> QED
    BY <2>1, <2>2
<1>13. ASSUME NEW n \in 1..MaxSubmits, SubmitAnswered(n)
       PROVE  SummaryIsOfJourney' /\ Titled
  <2>1. CASE Client!SubmitSucceeded(n) /\ FormsClosed
    BY <2>1, SummaryStays DEF Client!SubmitSucceeded, FormsClosed, Null
  <2>2. CASE (Client!SubmitFailed(n) \/ Client!SubmitIgnored(n)) /\ UNCHANGED table
    <3>1. UNCHANGED <<finishedJourney, form, deleted, editingObjectId, deleteConfirmId>>
      BY <1>13, <2>2 DEF SubmitAnswered, Client!SubmitFailed, Client!SubmitIgnored,
                         table, Client!journeys, Client!objects
    <3>2. submitting' \in {0, submitting}
      BY <2>2 DEF Client!SubmitFailed, Client!SubmitIgnored
    <3> QED
      BY <3>1, <3>2, SummaryStays
  <2> QED
    BY <1>13, <2>1, <2>2 DEF SubmitAnswered
<1>14. CASE AnyServer \/ \E l \in Local : SyncReturns(l)
  BY <1>1, <1>14 DEF AnyServer, SyncReturns, Client!AnyServer, Client!SyncAnswered,
                     Client!SyncFailed, Client!SyncIgnored, form, table,
                     Client!journeys, Client!objects
<1>15. CASE Reload
  <2>1. UNCHANGED <<finishedJourney, deleted, storedTitle>> /\ submitting' = 0
    BY <1>15 DEF Reload, Client!Reload, Client!journeys, Client!objects
  <2>2. /\ editingObjectId' = NoObject /\ deleteConfirmId' = NoObject
        /\ journeyTitle' = storedTitle
    BY <1>15 DEF Reload
  <2> QED
    BY <2>1, <2>2 DEF SummaryIsOfJourney
<1>16. CASE UNCHANGED vars \/ (Browser /\ ~ Reload)
  BY <1>1, <1>16 DEF vars, Browser, GoOnline, GoOffline, FetchTypes, RefetchTypes,
                     FeedArrives, client, form, table
<1> QED
  BY <1>2, <1>3, <1>4, <1>5, <1>6, <1>7, <1>8, <1>9, <1>10, <1>11, <1>12, <1>13,
     <1>14, <1>15, <1>16 DEF Next, Controls, Summary, Answers, Browser

\* What the invariants start from.
LEMMA SummaryStart == Init => SummaryIsOfJourney /\ Client!OneJourney
  BY DEF Init, Client!Init, SummaryIsOfJourney, Client!OneJourney, Null

\* The summary is about the journey it is open for: its title is the one that is
\* sent, and its forms are those of objects that are listed.
THEOREM SummaryOfOneJourney == Spec => []SummaryIsOfJourney
  BY SummaryStart, SummaryStep, OneJourneyStep, ClientStep, PTL DEF Spec

\* What is sent has a title.
THEOREM SubmitsTitled == Spec => SubmitTitled
<1>1. SummaryIsOfJourney /\ Client!OneJourney /\ [Next]_vars => [Titled]_vars
  BY SummaryStep
<1> QED
  BY <1>1, SummaryStart, SummaryStep, OneJourneyStep, ClientStep, PTL
     DEF Spec, SubmitTitled, Titled
=============================================================================
