------------------------------- MODULE MapPage -------------------------------
(***************************************************************************)
(* The map page around JourneyClient: what the components themselves keep   *)
(* (the type selected, the forms of the summary), the object types, which   *)
(* every component reads, and the browser, which goes offline.  The         *)
(* components' state is gone with a reload, the journey store's is not.     *)
(***************************************************************************)
EXTENDS Naturals

CONSTANTS Local, Report, Object, Modes, MaxPoints, MaxSubmits, Hasty, LostCalls

VARIABLES
    currentJourney, finishedJourney, placeMode, currentObjectPoints, showTypeSelector,
    placed, serverId, deleted, rewritten, sync, syncing, submit, submitting

VARIABLES
    onLine,             \* navigator.onLine
    types,              \* the query of the object types
    selectedType,       \* selectedTypeId
    shape,              \* what was placed as each object
    described,          \* objects whose description is not undefined
    storedTitle,        \* has the store's journey a title?
    journeyTitle,       \* is there one in the summary's form?
    editingObjectId, deleteConfirmId,
    isError,            \* of the submission
    seenOnLine          \* navigator.onLine as the summary's last rendering saw it

Client == INSTANCE JourneyClient

\* What the journey store assumes of the constants.
ASSUME ClientAssumptions == Client!ClientKeys /\ Client!ClientBounds

client == <<currentJourney, finishedJourney, placeMode, currentObjectPoints, showTypeSelector,
            placed, serverId, deleted, rewritten, sync, syncing, submit, submitting>>
browser == <<onLine, types>>
selector == <<selectedType, shape>>
form == <<storedTitle, journeyTitle>>
table == <<described, editingObjectId, deleteConfirmId>>
summary == <<isError, seenOnLine>>
vars == <<client, browser, selector, form, table, summary>>

Null == Client!Null
NoId == Client!NoId
NoObject == Client!NoObject

\* An object type: those of standardTypeIds stand for objects without one.
Type == [geometry : Modes, standard : BOOLEAN]
NoType == [geometry |-> "none", standard |-> FALSE]
NoShape == [geometry |-> "none", points |-> 0, type |-> NoType]

\* "outdated": there are types, but the last try to fetch them failed.
TypesState == {"loading", "paused", "failed", "loaded", "outdated"}
HaveTypes == types \in {"loaded", "outdated"}

Init ==
    /\ Client!Init
    /\ onLine = TRUE /\ types = "loading"
    /\ selectedType = NoType /\ shape = [l \in Local |-> NoShape]
    /\ described = {} /\ editingObjectId = NoObject /\ deleteConfirmId = NoObject
    /\ storedTitle = FALSE /\ journeyTitle = FALSE /\ isError = FALSE
    /\ seenOnLine = FALSE

-----------------------------------------------------------------------------
(* The browser and the object types. *)

\* The summary, if there is one, is rendered: the connection itself renders nothing.
Renders == seenOnLine' = (finishedJourney' # Null /\ onLine')

\* React Query takes up what it paused and what failed.
GoOnline ==
    /\ ~ onLine /\ onLine' = TRUE
    /\ types' = IF types \in {"paused", "failed"} THEN "loading" ELSE types
    /\ UNCHANGED <<client, selector, form, table, isError>>
    /\ IF types' = types THEN UNCHANGED seenOnLine ELSE Renders

GoOffline ==
    /\ onLine /\ onLine' = FALSE
    /\ UNCHANGED <<types, client, selector, form, table, summary>>

\* The first fetch ends, its tries included; without a connection it waits for one.
FetchTypes ==
    /\ types = "loading"
    /\ types' \in IF onLine THEN {"loaded", "failed"} ELSE {"paused"}
    /\ UNCHANGED <<onLine, client, selector, form, table, isError>>
    /\ Renders

\* They are fetched again when a connection comes back after an hour.
RefetchTypes ==
    /\ HaveTypes /\ onLine
    /\ types' \in {"loaded", "outdated"}
    /\ UNCHANGED <<onLine, client, selector, form, table, isError>>
    /\ Renders

\* The poll of the map feed brings something new.
FeedArrives ==
    /\ UNCHANGED <<client, browser, selector, form, table, isError>>
    /\ Renders

\* Faulty: only the object's own type is looked up.
TypeOf_Own(s) == IF HaveTypes THEN s.type ELSE NoType

\* getObjectTypeById, or getStandardObjectType.
TypeOf(s) ==
    IF ~ HaveTypes \/ s.geometry = "none" THEN NoType
    ELSE IF s.type # NoType THEN s.type
    ELSE [geometry |-> s.geometry, standard |-> TRUE]

\* renderObject: the corners of what is drawn; icons and labels are drawn with them.
Corners(s) ==
    IF TypeOf(s) = NoType THEN 0
    ELSE CASE s.geometry = "point" -> IF s.points = 0 THEN 0 ELSE 1
           [] s.geometry = "line" -> s.points
           [] s.geometry = "area" -> s.points + 1

\* objectsForMap: the journey's objects in blue, the points being drawn in red.
Blue == IF currentJourney = Null THEN {} ELSE {shape[l] : l \in currentJourney.objects}
Red == IF currentObjectPoints = 0 THEN {}
       ELSE {[geometry |-> placeMode, points |-> currentObjectPoints, type |-> NoType]}

-----------------------------------------------------------------------------
(* The controls. *)

\* The components of the summary go with it.
FormsClosed ==
    /\ editingObjectId' = NoObject /\ deleteConfirmId' = NoObject
    /\ seenOnLine' = FALSE
    /\ UNCHANGED described

StartJourney ==
    /\ Client!StartJourney
    /\ storedTitle' = FALSE
    /\ UNCHANGED <<browser, selector, journeyTitle, table, summary>>

Draw ==
    /\ Client!SetPlaceMode \/ Client!AddPoint \/ Client!HandleFinishPlace
       \/ Client!HandleCancelPlace \/ Client!DeleteStore
    /\ UNCHANGED <<browser, selector, form, table, summary>>

SelectorShown == currentJourney # Null /\ showTypeSelector

\* Faulty: every type is offered.
SelectType_Any(t) ==
    /\ SelectorShown /\ types = "loaded"
    /\ selectedType' = t
    /\ UNCHANGED <<client, browser, shape, form, table, summary>>

SelectType(t) ==
    /\ SelectorShown /\ types = "loaded"
    /\ t.geometry = placeMode /\ ~ t.standard
    /\ selectedType' = t
    /\ UNCHANGED <<client, browser, shape, form, table, summary>>

\* Faulty: the mode is read after it was reset.
Placement_Reset(t) ==
    [geometry |-> placeMode', points |-> currentObjectPoints, type |-> t]

\* What stopPlacingObject makes an object of.
Placement(t) == [geometry |-> placeMode, points |-> currentObjectPoints, type |-> t]

\* handleTypeSelect: the object is placed, and sent if the browser is online.
HandleTypeSelect(t) ==
    /\ Client!HandleTypeSelect
    /\ IF onLine THEN syncing' \in placed' \ placed ELSE sync' = sync
    /\ shape' = [l \in Local |-> IF l \in placed' \ placed THEN Placement(t) ELSE shape[l]]
    /\ selectedType' = NoType
    /\ UNCHANGED <<browser, form, table, summary>>

HandleConfirm ==
    /\ types = "loaded" /\ selectedType # NoType
    /\ HandleTypeSelect(selectedType)

\* "Hopp over", or "Legg til uten type".
Skip == types # "loading" /\ HandleTypeSelect(NoType)

\* Faulty: there is no such button on the box that shows the error.
CancelSelect_Loaded ==
    /\ types = "loaded"
    /\ Client!HandleCancelTypeSelect
    /\ selectedType' = NoType
    /\ UNCHANGED <<browser, shape, form, table, summary>>

\* While the types are loading there is nothing to click on.
CancelSelect ==
    /\ types # "loading"
    /\ Client!HandleCancelTypeSelect
    /\ selectedType' = NoType
    /\ UNCHANGED <<browser, shape, form, table, summary>>

-----------------------------------------------------------------------------
(* The summary. *)

\* Faulty: the form keeps what it showed of an earlier journey.
EndJourney_OldForm ==
    /\ Client!EndJourney
    /\ UNCHANGED <<browser, selector, form, table, isError>>
    /\ Renders

\* Its form starts with the title the journey has.
EndJourney ==
    /\ Client!EndJourney
    /\ journeyTitle' = storedTitle
    /\ UNCHANGED <<browser, selector, storedTitle, table, isError>>
    /\ Renders

\* Every change of the form goes to the store.
SetJourneyTitle(entered) ==
    /\ finishedJourney # Null
    /\ journeyTitle' = entered /\ storedTitle' = entered
    /\ UNCHANGED <<client, browser, selector, table, isError>>
    /\ Renders

Listed(l) == finishedJourney # Null /\ l \in finishedJourney.objects

\* The row of an object is replaced by its form.
HasRow(l) == Listed(l) /\ editingObjectId # l

HandleDeleteClick(l) ==
    /\ HasRow(l) /\ l \notin deleted
    /\ IF deleteConfirmId = l
       THEN Client!HandleDelete(l) /\ deleteConfirmId' = NoObject
       ELSE deleteConfirmId' = l /\ UNCHANGED client
    /\ UNCHANGED <<browser, selector, form, described, editingObjectId, isError>>
    /\ Renders

\* After two seconds.
ConfirmTimeout ==
    /\ deleteConfirmId # NoObject /\ deleteConfirmId' = NoObject
    /\ UNCHANGED <<client, browser, selector, form, described, editingObjectId, isError>>
    /\ Renders

HandleRestore(l) ==
    /\ HasRow(l) /\ Client!HandleRestore(l)
    /\ UNCHANGED <<browser, selector, form, table, isError>>
    /\ Renders

\* The form takes an object without a description to have been changed, and saves it.
HandleEditObject(l) ==
    /\ HasRow(l) /\ editingObjectId' = l
    /\ IF l \in described THEN UNCHANGED client ELSE Client!HandleSaveObject(l)
    /\ described' = described \cup {l}
    /\ UNCHANGED <<browser, selector, form, deleteConfirmId, isError>>
    /\ Renders

\* The form saves whatever is typed.
EditObject(l) ==
    /\ Listed(l) /\ editingObjectId = l /\ Client!HandleSaveObject(l)
    /\ UNCHANGED <<browser, selector, form, table, isError>>
    /\ Renders

CloseForm ==
    /\ editingObjectId # NoObject /\ editingObjectId' = NoObject
    /\ UNCHANGED <<client, browser, selector, form, described, deleteConfirmId, isError>>
    /\ Renders

HandleCloseSummary ==
    /\ Client!HandleCloseSummary /\ FormsClosed
    /\ UNCHANGED <<browser, selector, form, isError>>

\* Faulty: a journey needs no title.
CanSubmit_Untitled == finishedJourney.objects = {} \/ seenOnLine

\* As it was rendered: the button need not know of the connection there is by now.
CanSubmit == journeyTitle /\ (finishedJourney.objects = {} \/ seenOnLine)

\* Faulty: a submission that failed is not tried again.
HandleFinalize_Once ==
    /\ finishedJourney # Null /\ CanSubmit /\ submitting = 0 /\ onLine /\ ~ isError
    /\ Client!HandleSubmitSummary /\ isError' = FALSE
    /\ UNCHANGED <<browser, selector, form, table>>
    /\ Renders

\* The button is disabled while a submission is under way.  Without a connection
\* the summary is closed and the journey goes on.
HandleFinalize ==
    /\ finishedJourney # Null /\ CanSubmit /\ submitting = 0
    /\ UNCHANGED <<browser, selector, form>>
    /\ \/ /\ onLine /\ Client!HandleSubmitSummary /\ isError' = FALSE
          /\ Renders /\ UNCHANGED table
       \/ /\ ~ onLine /\ Client!HandleCloseSummary
          /\ FormsClosed /\ UNCHANGED isError

\* The answers.  With an accepted submission the journey is gone.
SubmitAnswered(n) ==
    /\ UNCHANGED <<browser, selector, form>>
    /\ \/ Client!SubmitSucceeded(n) /\ FormsClosed /\ UNCHANGED isError
       \/ Client!SubmitFailed(n) /\ isError' = TRUE /\ Renders /\ UNCHANGED table
       \/ Client!SubmitIgnored(n) /\ UNCHANGED <<table, summary>>

SyncReturns(l) ==
    /\ Client!SyncAnswered(l) \/ Client!SyncFailed(l) \/ Client!SyncIgnored(l)
    /\ UNCHANGED <<browser, selector, form, table, summary>>

AnyServer ==
    /\ Client!AnyServer
    /\ UNCHANGED <<browser, selector, form, table, summary>>

\* It takes a connection to load the page.
Reload ==
    /\ onLine /\ Client!Reload
    /\ types' = "loading"
    /\ selectedType' = NoType /\ editingObjectId' = NoObject /\ deleteConfirmId' = NoObject
    /\ journeyTitle' = storedTitle /\ isError' = FALSE
    /\ UNCHANGED <<onLine, shape, described, storedTitle>>
    /\ Renders

-----------------------------------------------------------------------------
Controls ==
    \/ StartJourney \/ Draw \/ HandleConfirm \/ Skip \/ CancelSelect \/ EndJourney
    \/ \E t \in Type : SelectType(t)

Summary ==
    \/ \E entered \in BOOLEAN : SetJourneyTitle(entered)
    \/ \E l \in Local : HandleDeleteClick(l) \/ HandleRestore(l) \/ HandleEditObject(l)
                      \/ EditObject(l)
    \/ ConfirmTimeout \/ CloseForm \/ HandleCloseSummary \/ HandleFinalize

Answers ==
    \/ \E n \in 1..MaxSubmits : SubmitAnswered(n)
    \/ \E l \in Local : SyncReturns(l)

Browser == GoOnline \/ GoOffline \/ FetchTypes \/ RefetchTypes \/ FeedArrives \/ Reload

Next == Controls \/ Summary \/ Answers \/ AnyServer \/ Browser
Spec == Init /\ [][Next]_vars

\* The user leaves the type selector, types a title while there is a connection and
\* submits, when they can; the connection comes back; fetches and calls end.
Fairness ==
    /\ SF_vars(CancelSelect) /\ WF_vars(FetchTypes)
    /\ WF_vars(GoOnline) /\ SF_vars(onLine /\ SetJourneyTitle(TRUE))
    /\ SF_vars(HandleFinalize) /\ WF_vars(AnyServer) /\ WF_vars(Answers)
FairSpec == Spec /\ Fairness

-----------------------------------------------------------------------------
(* Properties. *)

TypeOK ==
    /\ Client!TypeOK
    /\ onLine \in BOOLEAN /\ types \in TypesState
    /\ selectedType \in Type \cup {NoType}
    /\ shape \in [Local -> [geometry : Modes, points : 1..MaxPoints, type : Type \cup {NoType}]
                          \cup {NoShape}]
    /\ described \in SUBSET Local
    /\ editingObjectId \in Local \cup {NoObject}
    /\ deleteConfirmId \in Local \cup {NoObject}
    /\ {storedTitle, journeyTitle, isError, seenOnLine} \subseteq BOOLEAN

\* The type of an object is one for its geometry, although the mode is the store's,
\* outlives the selector and the page, and the choice is the selector's.
TypeFits ==
    \A l \in placed : shape[l].type # NoType =>
        shape[l].type.geometry = shape[l].geometry /\ ~ shape[l].type.standard

\* Once there are types, every object of the journey and what is being drawn is on
\* the map with its corners, placed without types or with one.
PlacedIsDrawn ==
    HaveTypes =>
        /\ \A s \in Blue : Corners(s) >= Client!MinimumPoints(s.geometry)
        /\ \A s \in Red : Corners(s) > 0

\* The summary is about the journey it is open for: its title is the one that is
\* sent, and its forms are those of objects that are listed.
SummaryIsOfJourney ==
    IF finishedJourney = Null
    THEN editingObjectId = NoObject /\ deleteConfirmId = NoObject
    ELSE /\ journeyTitle = storedTitle
         /\ editingObjectId # NoObject => Listed(editingObjectId)
         /\ deleteConfirmId # NoObject => Listed(deleteConfirmId) /\ deleteConfirmId \notin deleted

\* What is sent has a title.
SubmitTitled == [][submitting' \notin {0, submitting} => storedTitle]_vars

\* A journey that has an id and is summed up is submitted or continued, or all
\* tries are used up: a user who goes on typing is stopped neither by a refused
\* submission nor by a connection that comes and goes.
SummaryEnds ==
    finishedJourney # Null /\ finishedJourney.id # NoId
        ~> finishedJourney = Null \/ (\A n \in 1..MaxSubmits : submit[n].state # "none")

\* The user gets out of the type selector, whether types come or not.
SelectorCloses == SelectorShown ~> ~ SelectorShown

=============================================================================
