---------------------------- MODULE JourneyClient ----------------------------
(***************************************************************************)
(* The map page of a pilot: the journey store, which survives a reload, the *)
(* placement controls, the summary of a finished journey and the HTTP calls *)
(* they make.  A journey is current while objects are placed, finished      *)
(* while its summary is open, and gone when it was submitted.               *)
(*                                                                         *)
(* The user goes on while calls are under way; their answers come in any   *)
(* order, late or never.  React Query calls the handlers of the latest     *)
(* mutate() only, so of several calls one is observed: syncing, submitting. *)
(***************************************************************************)
EXTENDS Naturals

CONSTANTS
    Local,          \* objects the user places (keys made by randomUUID)
    Report,         \* journey ids the server may answer with
    Object,         \* object ids the server may answer with
    Modes,          \* the place modes the user picks from
    MaxPoints,      \* bound: points drawn for one object
    MaxSubmits,     \* bound: submissions
    Hasty,          \* what the user does while a call is under way
    LostCalls       \* may a call fail that the server gets or has answered?

NoId == "no id"            \* a journey's id, an object's server id: undefined
NoObject == "no object"

Haste == {"place", "end", "restart", "edit", "close", "reload"}

ASSUME ClientKeys ==
    /\ NoId \notin Report /\ NoId \notin Object /\ NoObject \notin Local
    /\ "null" \notin Report

ASSUME ClientBounds ==
    /\ Modes \subseteq {"point", "line", "area"}
    /\ MaxPoints \in Nat /\ MaxSubmits \in Nat
    /\ Hasty \subseteq Haste /\ LostCalls \in BOOLEAN

VARIABLES
    currentJourney, finishedJourney, placeMode,
    currentObjectPoints,    \* how many points are drawn
    showTypeSelector,
    placed,                 \* the objects placed so far
    serverId,               \* the id of an object, if it is the server's
    deleted,                \* objects deleted in the summary
    rewritten,              \* objects replaced by a copy in the summary
    sync, syncing,          \* the SyncObject call of each object, the observed one
    submit, submitting      \* the FinalizeJourney calls, the observed one

journeys == <<currentJourney, finishedJourney>>
placing == <<placeMode, currentObjectPoints, showTypeSelector>>
objects == <<placed, serverId, deleted, rewritten>>
calls == <<sync, syncing, submit, submitting>>
vars == <<journeys, placing, objects, calls>>

-----------------------------------------------------------------------------
(* Data. *)

Journey == [id : Report \cup {NoId}, objects : SUBSET Local]
Null == [id |-> "null", objects |-> {}]    \* no journey

\* What a finished journey sends of its objects, as it was when it was sent.
Entries == [kept : SUBSET Local, dropped : SUBSET Local,
            ids : [Local -> Object \cup {NoId}]]
NoEntries == [kept |-> {}, dropped |-> {}, ids |-> [l \in Local |-> NoId]]

SyncCall == [state : {"none", "asked", "answered", "refused", "over"},
             journey : Report \cup {NoId}, object : Object \cup {NoId}]
SubmitCall == [state : {"none", "asked", "accepted", "refused", "over"},
               journey : Report \cup {NoId}, entries : Entries]

SyncIs(state) == [state |-> state, journey |-> NoId, object |-> NoId]
SubmitIs(state) == [state |-> state, journey |-> NoId, entries |-> NoEntries]

TypeOK ==
    /\ currentJourney \in Journey \cup {Null}
    /\ finishedJourney \in Journey \cup {Null}
    /\ placeMode \in Modes \cup {"none"}
    /\ currentObjectPoints \in 0..MaxPoints
    /\ showTypeSelector \in BOOLEAN
    /\ placed \in SUBSET Local
    /\ serverId \in [Local -> Object \cup {NoId}]
    /\ deleted \in SUBSET Local
    /\ rewritten \in SUBSET Local
    /\ sync \in [Local -> SyncCall]
    /\ syncing \in Local \cup {NoObject}
    /\ submit \in [1..MaxSubmits -> SubmitCall]
    /\ submitting \in 0..MaxSubmits

Init ==
    /\ currentJourney = Null /\ finishedJourney = Null
    /\ placeMode = "none" /\ currentObjectPoints = 0 /\ showTypeSelector = FALSE
    /\ placed = {} /\ deleted = {} /\ rewritten = {}
    /\ serverId = [l \in Local |-> NoId]
    /\ sync = [l \in Local |-> SyncIs("none")] /\ syncing = NoObject
    /\ submit = [n \in 1..MaxSubmits |-> SubmitIs("none")] /\ submitting = 0

\* A user who is not hasty waits for the answer first.
Waits(what) == what \in Hasty \/ (syncing = NoObject /\ submitting = 0)

\* The controls are there; the type selector takes their place, the summary
\* covers them.
ControlsShown == currentJourney # Null /\ ~ showTypeSelector

-----------------------------------------------------------------------------
(* Placing objects. *)

StartJourney ==
    /\ currentJourney = Null /\ finishedJourney = Null
    /\ currentJourney' = [id |-> NoId, objects |-> {}]
    /\ UNCHANGED <<finishedJourney, placing, objects, calls>>

SetPlaceMode ==
    /\ ControlsShown /\ placeMode = "none"
    /\ placeMode' \in Modes
    /\ UNCHANGED <<journeys, currentObjectPoints, showTypeSelector, objects, calls>>

\* addPointToCurrentObject, at a click on the map; a point object has one point.
AddPoint ==
    /\ currentJourney # Null /\ placeMode # "none"
    /\ currentObjectPoints < MaxPoints
    /\ currentObjectPoints' = IF placeMode = "point" THEN 1 ELSE currentObjectPoints + 1
    /\ UNCHANGED <<journeys, placeMode, showTypeSelector, objects, calls>>

MinimumPoints(mode) ==
    CASE mode = "point" -> 1 [] mode = "line" -> 2 [] mode = "area" -> 3

\* handleFinishPlace: without points it ends placing, with too few it only says so.
HandleFinishPlace ==
    /\ ControlsShown /\ placeMode # "none"
    /\ \/ /\ currentObjectPoints = 0
          /\ placeMode' = "none"
          /\ UNCHANGED <<currentObjectPoints, showTypeSelector>>
       \/ /\ currentObjectPoints >= MinimumPoints(placeMode)
          /\ showTypeSelector' = TRUE
          /\ UNCHANGED <<placeMode, currentObjectPoints>>
    /\ UNCHANGED <<journeys, objects, calls>>

HandleCancelPlace ==
    /\ ControlsShown /\ placeMode # "none"
    /\ placeMode' = "none" /\ currentObjectPoints' = 0
    /\ UNCHANGED <<journeys, showTypeSelector, objects, calls>>

HandleCancelTypeSelect ==
    /\ currentJourney # Null /\ showTypeSelector
    /\ showTypeSelector' = FALSE /\ currentObjectPoints' = 0
    /\ UNCHANGED <<journeys, placeMode, objects, calls>>

\* handleTypeSelect: stopPlacingObject makes the object, and when the browser is
\* online it is sent with the id the journey has by now; an object that was
\* being sent is no longer observed.  There are points whenever the selector is
\* shown, so the store always makes an object.
HandleTypeSelect ==
    /\ currentJourney # Null /\ showTypeSelector
    /\ Waits("place")
    /\ \E l \in Local \ placed, onLine \in BOOLEAN :
           /\ placed' = placed \cup {l}
           /\ currentJourney' = [currentJourney EXCEPT !.objects = @ \cup {l}]
           /\ IF onLine
              THEN /\ sync' = [sync EXCEPT ![l] = [SyncIs("asked") EXCEPT
                                                      !.journey = currentJourney.id]]
                   /\ syncing' = l
              ELSE UNCHANGED <<sync, syncing>>
    /\ placeMode' = "none" /\ currentObjectPoints' = 0 /\ showTypeSelector' = FALSE
    /\ UNCHANGED <<finishedJourney, serverId, deleted, rewritten, submit, submitting>>

\* deleteStore ("Start ny reise").
DeleteStore ==
    /\ ControlsShown /\ Waits("restart")
    /\ currentJourney' = Null /\ finishedJourney' = Null
    /\ placeMode' = "none" /\ currentObjectPoints' = 0
    /\ UNCHANGED <<showTypeSelector, objects, calls>>

-----------------------------------------------------------------------------
(* The summary. *)

\* Faulty: endJourney keeps the points.
EndJourney_KeepPoints ==
    /\ ControlsShown /\ Waits("end")
    /\ finishedJourney' = currentJourney /\ currentJourney' = Null
    /\ UNCHANGED <<placing, objects, calls>>

\* endJourney drops the points drawn, and leaves the mode.
EndJourney ==
    /\ ControlsShown /\ Waits("end")
    /\ finishedJourney' = currentJourney /\ currentJourney' = Null
    /\ currentObjectPoints' = 0
    /\ UNCHANGED <<placeMode, showTypeSelector, objects, calls>>

\* handleCloseSummary: undoEndJourney makes the journey current again.
HandleCloseSummary ==
    /\ finishedJourney # Null /\ Waits("close")
    /\ currentJourney' = finishedJourney /\ finishedJourney' = Null
    /\ UNCHANGED <<placing, objects, calls>>

\* updateObjectInFinishedJourney puts a changed copy in the object's place.
UpdateObject(l, deletedObjects) ==
    /\ l \in finishedJourney.objects /\ Waits("edit")
    /\ deleted' = deletedObjects
    /\ rewritten' = rewritten \cup {l}
    /\ UNCHANGED <<journeys, placing, placed, serverId, calls>>

HandleDelete(l) == l \notin deleted /\ UpdateObject(l, deleted \cup {l})
HandleRestore(l) == l \in deleted /\ UpdateObject(l, deleted \ {l})
HandleSaveObject(l) == UpdateObject(l, deleted)

\* Faulty: objects that have no id of the server's are left out.
EntriesOf_Synced(j) ==
    LET kept == {l \in j.objects : l \notin deleted /\ serverId[l] # NoId}
    IN  [kept |-> kept, dropped |-> j.objects \ kept,
         ids |-> [l \in Local |-> IF l \in j.objects THEN serverId[l] ELSE NoId]]

EntriesOf(j) ==
    [kept |-> j.objects \ deleted, dropped |-> j.objects \cap deleted,
     ids |-> [l \in Local |-> IF l \in j.objects THEN serverId[l] ELSE NoId]]

\* handleSubmitSummary; a journey without an id is not sent, and nothing says so.
HandleSubmitSummary ==
    /\ finishedJourney # Null /\ finishedJourney.id # NoId
    /\ submitting = 0
    /\ \E n \in 1..MaxSubmits :
           /\ submit[n].state = "none" /\ \A m \in 1..(n - 1) : submit[m].state # "none"
           /\ submit' = [submit EXCEPT ![n] = [state |-> "asked",
                                               journey |-> finishedJourney.id,
                                               entries |-> EntriesOf(finishedJourney)]]
           /\ submitting' = n
    /\ UNCHANGED <<journeys, placing, objects, sync, syncing>>

-----------------------------------------------------------------------------
(* The page is reloaded: the store comes back from localStorage, the calls    *)
(* under way are not observed any more.                                       *)
Reload ==
    /\ Waits("reload")
    /\ showTypeSelector' = FALSE
    /\ syncing' = NoObject /\ submitting' = 0
    /\ UNCHANGED <<journeys, placeMode, currentObjectPoints, objects, sync, submit>>

-----------------------------------------------------------------------------
(* Answers. *)

\* Faulty: the ids are given to the object placed last.
SyncAnswered_Latest(l) ==
    /\ sync[l].state = "answered" /\ syncing # NoObject
    /\ sync' = [sync EXCEPT ![l] = SyncIs("over")] /\ syncing' = NoObject
    /\ IF currentJourney = Null THEN UNCHANGED <<currentJourney, serverId>>
       ELSE /\ currentJourney' = [currentJourney EXCEPT !.id = sync[l].journey]
            /\ serverId' = IF syncing \in currentJourney.objects \ rewritten
                           THEN [serverId EXCEPT ![syncing] = sync[l].object] ELSE serverId
    /\ UNCHANGED <<finishedJourney, placing, placed, deleted, rewritten, submit, submitting>>

\* Faulty: the two ids of the answer are mixed up.
SyncAnswered_Swapped(l) ==
    /\ sync[l].state = "answered" /\ syncing = l
    /\ sync' = [sync EXCEPT ![l] = SyncIs("over")] /\ syncing' = NoObject
    /\ currentJourney # Null
    /\ currentJourney' = [currentJourney EXCEPT !.id = sync[l].object]
    /\ serverId' = [serverId EXCEPT ![l] = sync[l].journey]
    /\ UNCHANGED <<finishedJourney, placing, placed, deleted, rewritten, submit, submitting>>

\* Faulty: the handlers do not look whether there still is a current journey.
SyncAnswered_Unchecked(l) ==
    /\ sync[l].state = "answered" /\ syncing = l
    /\ sync' = [sync EXCEPT ![l] = SyncIs("over")] /\ syncing' = NoObject
    /\ currentJourney' = [currentJourney EXCEPT !.id = sync[l].journey]
    /\ serverId' = [serverId EXCEPT ![l] = sync[l].object]
    /\ UNCHANGED <<finishedJourney, placing, placed, deleted, rewritten, submit, submitting>>

\* onSuccess of the observed call: updateJourneyId and updateObjectId, which both
\* look at the current journey only; the object has to be the one that was sent.
SyncAnswered(l) ==
    /\ sync[l].state = "answered" /\ syncing = l
    /\ sync' = [sync EXCEPT ![l] = SyncIs("over")] /\ syncing' = NoObject
    /\ IF currentJourney = Null THEN UNCHANGED <<currentJourney, serverId>>
       ELSE /\ currentJourney' = [currentJourney EXCEPT !.id = sync[l].journey]
            /\ serverId' = IF l \in currentJourney.objects \ rewritten
                           THEN [serverId EXCEPT ![l] = sync[l].object] ELSE serverId
    /\ UNCHANGED <<finishedJourney, placing, placed, deleted, rewritten, submit, submitting>>

\* The call fails: an error of the server, or of the network, and then the call
\* may still reach the server or have been answered.
SyncFailed(l) ==
    /\ syncing = l /\ syncing' = NoObject
    /\ \/ sync[l].state = "refused" /\ sync' = [sync EXCEPT ![l] = SyncIs("over")]
       \/ sync[l].state \in {"asked", "answered"} /\ LostCalls /\ UNCHANGED sync
    /\ UNCHANGED <<journeys, placing, objects, submit, submitting>>

\* An answer nobody observes.
SyncIgnored(l) ==
    /\ sync[l].state \in {"answered", "refused"} /\ syncing # l
    /\ sync' = [sync EXCEPT ![l] = SyncIs("over")]
    /\ UNCHANGED <<journeys, placing, objects, syncing, submit, submitting>>

\* onSuccess of the submission: deleteEndJourney, whichever journey is finished.
SubmitSucceeded(n) ==
    /\ submit[n].state = "accepted" /\ submitting = n
    /\ submit' = [submit EXCEPT ![n] = SubmitIs("over")] /\ submitting' = 0
    /\ finishedJourney' = Null
    /\ UNCHANGED <<currentJourney, placing, objects, sync, syncing>>

SubmitFailed(n) ==
    /\ submitting = n /\ submitting' = 0
    /\ \/ submit[n].state = "refused" /\ submit' = [submit EXCEPT ![n] = SubmitIs("over")]
       \/ submit[n].state \in {"asked", "accepted"} /\ LostCalls /\ UNCHANGED submit
    /\ UNCHANGED <<journeys, placing, objects, sync, syncing>>

SubmitIgnored(n) ==
    /\ submit[n].state \in {"accepted", "refused"} /\ submitting # n
    /\ submit' = [submit EXCEPT ![n] = SubmitIs("over")]
    /\ UNCHANGED <<journeys, placing, objects, sync, syncing, submitting>>

-----------------------------------------------------------------------------
User ==
    \/ StartJourney \/ SetPlaceMode \/ AddPoint
    \/ HandleFinishPlace \/ HandleCancelPlace
    \/ HandleCancelTypeSelect \/ HandleTypeSelect
    \/ DeleteStore \/ EndJourney
    \/ HandleCloseSummary \/ HandleSubmitSummary \/ Reload
    \/ \E l \in Local : HandleDelete(l) \/ HandleRestore(l) \/ HandleSaveObject(l)

\* A server that answers anything.
AnyServer ==
    /\ \/ /\ \E l \in Local :
                /\ sync[l].state = "asked"
                /\ \/ sync' = [sync EXCEPT ![l] = SyncIs("refused")]
                   \/ \E rp \in Report, o \in Object :
                          sync' = [sync EXCEPT ![l] = [state |-> "answered",
                                                       journey |-> rp, object |-> o]]
          /\ UNCHANGED submit
       \/ /\ \E n \in 1..MaxSubmits, answer \in {"accepted", "refused"} :
                /\ submit[n].state = "asked"
                /\ submit' = [submit EXCEPT ![n] = SubmitIs(answer)]
          /\ UNCHANGED sync
    /\ UNCHANGED <<journeys, placing, objects, syncing, submitting>>

Answer ==
    \/ \E l \in Local : SyncAnswered(l) \/ SyncFailed(l) \/ SyncIgnored(l)
    \/ \E n \in 1..MaxSubmits : SubmitSucceeded(n) \/ SubmitFailed(n) \/ SubmitIgnored(n)

Next == User \/ AnyServer \/ Answer
Spec == Init /\ [][Next]_vars

-----------------------------------------------------------------------------
\* There is one journey at a time: no answer that comes late brings a journey
\* back beside the finished one, which closing the summary would overwrite.
OneJourney == currentJourney = Null \/ finishedJourney = Null

\* Points are only drawn for the current journey, and the type selector is only
\* shown for an object that has the points its mode asks for ("Et punkt krever
\* noeyaktig ett punkt", "En linje krever minst to punkter"), although points are
\* added while it is shown and the mode outlives the journey and the page.
PlacementOK ==
    /\ currentObjectPoints > 0 => currentJourney # Null /\ placeMode # "none"
    /\ placeMode = "point" => currentObjectPoints <= 1
    /\ showTypeSelector => /\ placeMode # "none"
                           /\ currentObjectPoints >= MinimumPoints(placeMode)

=============================================================================
