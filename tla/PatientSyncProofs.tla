------------------------- MODULE PatientSyncProofs -------------------------
(***************************************************************************)
(* What a user who waits for answers, none of which is lost, may rely on:   *)
(* the journey on the page is its report, no object is stored twice, and    *)
(* what was deleted is gone.                                                *)
(***************************************************************************)
EXTENDS JourneySyncProofs

-----------------------------------------------------------------------------
(* A user who waits for the answers, which all arrive, and whose drafts no
   administrator reviews. *)

WaitingUser == Hasty = {} /\ LostCalls = FALSE /\ "draft" \notin ReviewOf

Nil == Client!Null

SyncOpen(l) == sync[l].state \in {"asked", "answered", "refused"}
SubmitOpen(n) == submit[n].state \in {"asked", "accepted", "refused"}
Granted == \E n \in 1..MaxSubmits : submit[n].state = "accepted"

\* One call at a time, and it is observed: of an object that was just placed in the
\* current journey, or of the finished journey.
CallsObserved ==
    /\ \A l \in Local : SyncOpen(l) <=> syncing = l
    /\ \A n \in 1..MaxSubmits : SubmitOpen(n) <=> submitting = n
    /\ syncing # Client!NoObject =>
          /\ currentJourney # Nil /\ submitting = 0
          /\ syncing \in currentJourney.objects \ rewritten
          /\ serverId[syncing] = Client!NoId
    /\ submitting # 0 => finishedJourney # Nil
    /\ currentJourney = Nil \/ finishedJourney = Nil

\* What is asked is still true of the page.
CallsCurrent ==
    /\ \A l \in Local : sync[l].state = "asked" => sync[l].journey = currentJourney.id
    /\ \A n \in 1..MaxSubmits : submit[n].state = "asked" =>
          /\ submit[n].journey = finishedJourney.id
          /\ submit[n].entries = Client!EntriesOf(finishedJourney)

\* Objects that were not placed yet are unknown to everyone.
OnlyPlaced ==
    /\ currentJourney.objects \subseteq placed
    /\ finishedJourney.objects \subseteq placed /\ rewritten \subseteq placed
    /\ \A l \in Local \ placed :
          /\ sync[l].state = "none" /\ serverId[l] = Client!NoId
          /\ \A o \in Object : origin[o] # l

\* A journey without an id was never sent; the report of one with an id is a draft,
\* with the rows of the objects that have an id.
Drafted(j) ==
    /\ j.id = Client!NoId => \A l \in j.objects : serverId[l] = Client!NoId
    /\ j.id # Client!NoId => report[j.id] = "draft"
    /\ \A l \in j.objects : serverId[l] # Client!NoId /\ Exists(serverId[l])
          => object[serverId[l]].report = j.id

\* A report has rows of these objects only.
RowsAreOf(rp, objects) ==
    \A o \in Object : Exists(o) /\ object[o].report = rp => origin[o] \in objects

JourneysKnown ==
    /\ currentJourney # Nil =>
          Drafted(currentJourney) /\ RowsAreOf(currentJourney.id, currentJourney.objects)
    /\ finishedJourney # Nil =>
          /\ RowsAreOf(finishedJourney.id, finishedJourney.objects)
          /\ ~ Granted => Drafted(finishedJourney)

\* An answer that is under way will make this so.
AnswersCurrent ==
    \A l \in Local : sync[l].state = "answered" =>
        /\ sync[l].journey \in Report /\ report[sync[l].journey] = "draft"
        /\ currentJourney.id \in {Client!NoId, sync[l].journey}
        /\ Exists(sync[l].object) /\ object[sync[l].object].report = sync[l].journey
        /\ RowsAreOf(sync[l].journey, currentJourney.objects)

\* A row was made for an object of the page, in a report.
RowsHaveReport ==
    \A o \in Object : Exists(o) =>
        /\ object[o].report \in Report /\ report[object[o].report] # "none"
        /\ origin[o] \in Local

\* The page has the id of each row of its journey, or will have it, or is done.
Accounted ==
    \A o \in Object : Exists(o) =>
        \/ serverId[origin[o]] = o
        \/ sync[origin[o]].state = "answered" /\ sync[origin[o]].object = o
        \/ origin[o] \notin currentJourney.objects \cup finishedJourney.objects
        \/ Granted

\* An accepted submission left no row of what the user deleted.
GrantedOK ==
    Granted => \A l \in finishedJourney.objects \cap deleted : RowsOf(l) = {}

WaitOK ==
    /\ CallsObserved /\ CallsCurrent /\ OnlyPlaced /\ JourneysKnown /\ AnswersCurrent
    /\ RowsHaveReport /\ Accounted /\ GrantedOK /\ StoredOnce

\* What a user who waits does, and what the page then does to journeys and calls.
Knows == <<placed, serverId, deleted, rewritten>>
Calls == <<sync, syncing, submit, submitting>>
NoCalls == syncing = Client!NoObject /\ submitting = 0

\* Nothing is under way when nothing is observed.
LEMMA NothingOpen ==
    ASSUME TypeOK, CallsObserved
    PROVE  /\ syncing = Client!NoObject => \A l \in Local : ~ SyncOpen(l)
           /\ submitting = 0 => ~ Granted /\ \A n \in 1..MaxSubmits : ~ SubmitOpen(n)
<1>1. \A l \in Local : l # Client!NoObject
  BY PageConstants
<1>2. \A n \in 1..MaxSubmits : n # 0
  BY PageConstants
<1> QED
  BY <1>1, <1>2 DEF CallsObserved, Granted, SubmitOpen

\* The journey is handed on or dropped, or an empty one begins.
HandedOn ==
    /\ NoCalls /\ UNCHANGED <<Knows, Calls, report, object, origin>>
    /\ \/ currentJourney' = Nil /\ finishedJourney' \in {Nil, currentJourney}
       \/ currentJourney' = finishedJourney /\ finishedJourney' = Nil
       \/ /\ finishedJourney = Nil /\ finishedJourney' = Nil
          /\ currentJourney' = [id |-> Client!NoId, objects |-> {}]

\* Each step of the page is one of these.
LEMMA PageSteps ==
    ASSUME WaitingUser, TypeOK, CallsObserved, PageStep
    PROVE  \/ UNCHANGED <<currentJourney, finishedJourney, Knows, Calls, report, object, origin>>
           \/ HandedOn
           \/ Client!HandleTypeSelect \/ Client!HandleSubmitSummary
           \/ \E l \in Local : \E d \in SUBSET Local : Client!UpdateObject(l, d)
           \/ \E l \in Local : Client!SyncAnswered(l) \/ Client!SyncFailed(l)
           \/ \E n \in 1..MaxSubmits : Client!SubmitSucceeded(n) \/ Client!SubmitFailed(n)
<1> USE DEF Knows, Calls, Client!journeys, Client!objects, Client!calls
<1>w. /\ UNCHANGED <<report, object, origin>>
      /\ \A what : Client!Waits(what) => NoCalls
  BY DEF PageStep, WaitingUser, Client!Waits, NoCalls
<1>1. CASE \/ Client!SetPlaceMode \/ Client!AddPoint \/ Client!HandleFinishPlace
           \/ Client!HandleCancelPlace \/ Client!HandleCancelTypeSelect
  BY <1>1, <1>w DEF Client!SetPlaceMode, Client!AddPoint, Client!HandleFinishPlace,
                    Client!HandleCancelPlace, Client!HandleCancelTypeSelect
<1>2. CASE Client!Reload
  BY <1>2, <1>w DEF Client!Reload, NoCalls
<1>3. CASE Client!StartJourney
  <2>1. NoCalls
    BY <1>3 DEF Client!StartJourney, CallsObserved, NoCalls, Nil
  <2> QED
    BY <1>3, <1>w, <2>1 DEF Client!StartJourney, HandedOn, Nil
<1>4. CASE Client!DeleteStore \/ Client!EndJourney \/ Client!HandleCloseSummary
  BY <1>4, <1>w DEF Client!DeleteStore, Client!EndJourney, Client!HandleCloseSummary,
                    HandedOn, Nil
<1>5. ASSUME NEW l \in Local,
             Client!HandleDelete(l) \/ Client!HandleRestore(l) \/ Client!HandleSaveObject(l)
      PROVE  \E d \in SUBSET Local : Client!UpdateObject(l, d)
  BY <1>5 DEF Client!HandleDelete, Client!HandleRestore, Client!HandleSaveObject, TypeOK,
              Client!TypeOK
<1>6. ASSUME NEW l \in Local, Client!SyncIgnored(l) PROVE FALSE
  BY <1>6 DEF Client!SyncIgnored, CallsObserved, SyncOpen
<1>7. ASSUME NEW n \in 1..MaxSubmits, Client!SubmitIgnored(n) PROVE FALSE
  BY <1>7 DEF Client!SubmitIgnored, CallsObserved, SubmitOpen
<1> QED
  BY <1>1, <1>2, <1>3, <1>4, <1>5, <1>6, <1>7 DEF PageStep, Client!User, Client!Answer

\* What a user who waits does without calling the server.
LEMMA CalmKeepsWait ==
    ASSUME TypeOK, WaitOK,
           UNCHANGED <<currentJourney, finishedJourney, Knows, Calls, report, object, origin>>
    PROVE  WaitOK'
  BY DEF Knows, Calls, WaitOK, CallsObserved, SyncOpen, SubmitOpen, CallsCurrent,
         Client!EntriesOf, OnlyPlaced, JourneysKnown, Drafted, RowsAreOf, Granted,
         AnswersCurrent, RowsHaveReport, Accounted, GrantedOK, StoredOnce, RowsOf, Exists

\* A journey that is handed on is still what the tables hold.
LEMMA HandedOnKeepsWait ==
    ASSUME TypeOK, WaitOK, HandedOn
    PROVE  WaitOK'
<1> USE DEF Knows, Calls, NoCalls, HandedOn
<1>1. (\A l \in Local : ~ SyncOpen(l)) /\ ~ Granted /\ \A n \in 1..MaxSubmits : ~ SubmitOpen(n)
  BY NothingOpen DEF WaitOK
<1>2. \A l \in Local : sync[l].state \notin {"asked", "answered"}
  BY <1>1 DEF SyncOpen
<1>3. \A n \in 1..MaxSubmits : submit[n].state \notin {"asked", "accepted"}
  BY <1>1 DEF SubmitOpen
<1>4. CallsObserved'
  BY DEF WaitOK, CallsObserved, SyncOpen, SubmitOpen
<1>5. CallsCurrent' /\ AnswersCurrent' /\ GrantedOK' /\ ~ Granted'
  BY <1>2, <1>3 DEF CallsCurrent, AnswersCurrent, GrantedOK, Granted
<1>6. currentJourney'.objects \cup finishedJourney'.objects
         \subseteq currentJourney.objects \cup finishedJourney.objects
  BY DEF Nil, Client!Null
<1>7. OnlyPlaced'
  BY <1>6 DEF WaitOK, OnlyPlaced
<1>8. JourneysKnown'
  <2>1. CASE \/ currentJourney' = Nil /\ finishedJourney' \in {Nil, currentJourney}
             \/ currentJourney' = finishedJourney /\ finishedJourney' = Nil
    <3>1. /\ (currentJourney # Nil => Drafted(currentJourney))'
          /\ (finishedJourney # Nil => Drafted(finishedJourney))'
      BY <1>1, <2>1 DEF WaitOK, JourneysKnown, Drafted, Exists
    <3>2. /\ (currentJourney # Nil => RowsAreOf(currentJourney.id, currentJourney.objects))'
          /\ (finishedJourney # Nil => RowsAreOf(finishedJourney.id, finishedJourney.objects))'
      BY <1>1, <2>1 DEF WaitOK, JourneysKnown, RowsAreOf, Exists
    <3> QED
      BY <3>1, <3>2 DEF JourneysKnown
  <2>2. CASE /\ finishedJourney' = Nil
             /\ currentJourney' = [id |-> Client!NoId, objects |-> {}]
    BY <2>2, PageConstants
       DEF WaitOK, JourneysKnown, Drafted, RowsAreOf, RowsHaveReport, Exists
  <2> QED
    BY <2>1, <2>2
<1>9. RowsHaveReport' /\ StoredOnce'
  BY DEF WaitOK, RowsHaveReport, StoredOnce, RowsOf, Exists
<1>10. Accounted'
  BY <1>1, <1>6 DEF WaitOK, Accounted, Exists
<1> QED
  BY <1>4, <1>5, <1>7, <1>8, <1>9, <1>10 DEF WaitOK

\* A change in the summary changes no journey.
LEMMA UpdateKeepsWait ==
    ASSUME WaitingUser, TypeOK, WaitOK, UNCHANGED <<report, object, origin>>,
           NEW l \in Local, NEW d \in SUBSET Local, Client!UpdateObject(l, d)
    PROVE  WaitOK'
<1>1. /\ NoCalls /\ UNCHANGED <<currentJourney, finishedJourney, placed, serverId, Calls>>
      /\ rewritten' = rewritten \cup {l} /\ l \in finishedJourney.objects
  BY DEF WaitingUser, Client!UpdateObject, Client!Waits, NoCalls, Calls,
         Client!journeys, Client!calls
<1>2. (\A k \in Local : ~ SyncOpen(k)) /\ ~ Granted /\ \A n \in 1..MaxSubmits : ~ SubmitOpen(n)
  BY <1>1, NothingOpen DEF WaitOK, NoCalls
<1>3. \A k \in Local : sync[k].state \notin {"asked", "answered"}
  BY <1>2 DEF SyncOpen
<1>4. \A n \in 1..MaxSubmits : submit[n].state \notin {"asked", "accepted"}
  BY <1>2 DEF SubmitOpen
<1>5. CallsObserved'
  BY <1>1 DEF WaitOK, CallsObserved, SyncOpen, SubmitOpen, Calls, NoCalls
<1>6. CallsCurrent' /\ AnswersCurrent' /\ GrantedOK' /\ ~ Granted'
  BY <1>1, <1>3, <1>4 DEF CallsCurrent, AnswersCurrent, GrantedOK, Granted, Calls
<1>7. OnlyPlaced'
  BY <1>1 DEF WaitOK, OnlyPlaced, Calls
<1>8. JourneysKnown' /\ RowsHaveReport' /\ StoredOnce' /\ Accounted'
  BY <1>1, <1>2
     DEF WaitOK, JourneysKnown, Drafted, RowsAreOf, RowsHaveReport, StoredOnce, RowsOf,
         Accounted, Exists, Calls
<1> QED
  BY <1>5, <1>6, <1>7, <1>8 DEF WaitOK

\* A new object of the current journey is unknown to everyone, sent or not.
LEMMA PlacedKeepsWait ==
    ASSUME WaitingUser, TypeOK, TypeOK', WaitOK, UNCHANGED <<report, object, origin>>,
           Client!HandleTypeSelect
    PROVE  WaitOK'
<1> USE DEF TypeOK, Client!TypeOK
<1>1. NoCalls /\ currentJourney # Nil /\ finishedJourney = Nil
  BY DEF WaitingUser, Client!HandleTypeSelect, Client!Waits, NoCalls, WaitOK, CallsObserved,
         Nil
<1>2. (\A k \in Local : ~ SyncOpen(k)) /\ ~ Granted /\ \A n \in 1..MaxSubmits : ~ SubmitOpen(n)
  BY <1>1, NothingOpen DEF WaitOK, NoCalls
<1>3. PICK l \in Local \ placed, onLine \in BOOLEAN :
         /\ placed' = placed \cup {l}
         /\ currentJourney' = [currentJourney EXCEPT !.objects = @ \cup {l}]
         /\ IF onLine
            THEN /\ sync' = [sync EXCEPT ![l] = [Client!SyncIs("asked") EXCEPT
                                                    !.journey = currentJourney.id]]
                 /\ syncing' = l
            ELSE UNCHANGED <<sync, syncing>>
  BY DEF Client!HandleTypeSelect
<1>4. UNCHANGED <<finishedJourney, serverId, deleted, rewritten, submit, submitting>>
  BY DEF Client!HandleTypeSelect
<1>5. /\ currentJourney \in Client!Journey
      /\ currentJourney'.id = currentJourney.id
      /\ currentJourney'.objects = currentJourney.objects \cup {l}
  BY <1>1, <1>3 DEF Nil, Client!Journey
<1>6. currentJourney' # Nil
  BY <1>1, <1>3, <1>5, JourneyKept DEF Nil
<1>7. /\ serverId[l] = Client!NoId /\ l \notin rewritten
      /\ \A o \in Object : origin[o] # l
  BY DEF WaitOK, OnlyPlaced
<1>8. \/ UNCHANGED <<sync, syncing>>
      \/ /\ syncing' = l /\ sync'[l].state = "asked" /\ sync'[l].journey = currentJourney.id
         /\ \A k \in Local \ {l} : sync'[k] = sync[k]
  BY <1>3 DEF Client!SyncIs
<1>9. CallsObserved'
  <2>1. \A k \in Local : SyncOpen(k)' <=> syncing' = k
    BY <1>1, <1>2, <1>8, PageConstants DEF SyncOpen, NoCalls
  <2>2. \A n \in 1..MaxSubmits : SubmitOpen(n)' <=> submitting' = n
    BY <1>4 DEF SubmitOpen, WaitOK, CallsObserved
  <2>3. (syncing # Client!NoObject =>
           /\ currentJourney # Nil /\ submitting = 0
           /\ syncing \in currentJourney.objects \ rewritten
           /\ serverId[syncing] = Client!NoId)'
    BY <1>1, <1>4, <1>5, <1>6, <1>7, <1>8 DEF NoCalls
  <2> QED
    BY <1>1, <1>4, <2>1, <2>2, <2>3 DEF CallsObserved, NoCalls
<1>10. \A n \in 1..MaxSubmits : submit'[n].state \notin {"asked", "accepted"}
  BY <1>2, <1>4 DEF SubmitOpen
<1>11. \A k \in Local : /\ sync'[k].state # "answered"
                        /\ sync'[k].state = "asked" => sync'[k].journey = currentJourney.id
  BY <1>2, <1>8 DEF SyncOpen
<1>12. CallsCurrent' /\ AnswersCurrent' /\ GrantedOK' /\ ~ Granted'
  BY <1>5, <1>10, <1>11 DEF CallsCurrent, AnswersCurrent, GrantedOK, Granted
<1>13. OnlyPlaced'
  <2>1. ASSUME NEW k \in Local \ placed'
        PROVE  sync'[k].state = "none" /\ serverId[k] = Client!NoId /\ \A o \in Object : origin[o] # k
    BY <1>3, <1>8 DEF WaitOK, OnlyPlaced
  <2> QED
    BY <1>3, <1>4, <1>5, <2>1 DEF WaitOK, OnlyPlaced
<1>14. JourneysKnown'
  BY <1>1, <1>4, <1>5, <1>7 DEF WaitOK, JourneysKnown, Drafted, RowsAreOf, Exists
<1>15. RowsHaveReport' /\ StoredOnce'
  BY DEF WaitOK, RowsHaveReport, StoredOnce, RowsOf, Exists
<1>16. Accounted'
  <2>1. ASSUME NEW o \in Object, Exists(o)
        PROVE  serverId[origin[o]] = o \/ origin[o] \notin currentJourney'.objects \cup finishedJourney.objects
    BY <1>2, <1>5, <1>7, <2>1 DEF WaitOK, Accounted, SyncOpen, RowsHaveReport
  <2> QED
    BY <1>4, <2>1 DEF Accounted, Exists
<1> QED
  BY <1>9, <1>12, <1>13, <1>14, <1>15, <1>16 DEF WaitOK

\* The finished journey is sent as it is.
LEMMA SentKeepsWait ==
    ASSUME TypeOK, WaitOK, UNCHANGED <<report, object, origin>>, Client!HandleSubmitSummary
    PROVE  WaitOK'
<1> USE DEF TypeOK, Client!TypeOK
<1>1. /\ finishedJourney # Nil /\ currentJourney = Nil /\ NoCalls
      /\ UNCHANGED <<currentJourney, finishedJourney, placed, serverId, deleted,
                     rewritten, sync, syncing>>
  BY DEF Client!HandleSubmitSummary, Client!journeys, Client!objects, WaitOK,
         CallsObserved, NoCalls, Nil
<1>2. (\A k \in Local : ~ SyncOpen(k)) /\ ~ Granted /\ \A n \in 1..MaxSubmits : ~ SubmitOpen(n)
  BY <1>1, NothingOpen DEF WaitOK, NoCalls
<1>3. PICK n \in 1..MaxSubmits :
         /\ submit' = [submit EXCEPT ![n] = [state |-> "asked",
                                             journey |-> finishedJourney.id,
                                             entries |-> Client!EntriesOf(finishedJourney)]]
         /\ submitting' = n
  BY DEF Client!HandleSubmitSummary
<1>4. /\ submit'[n].state = "asked" /\ submit'[n].journey = finishedJourney.id
      /\ submit'[n].entries = Client!EntriesOf(finishedJourney)
      /\ \A m \in (1..MaxSubmits) \ {n} : submit'[m] = submit[m]
  BY <1>3
<1>5. \A m \in 1..MaxSubmits : submit[m].state \notin {"asked", "accepted", "refused"}
  BY <1>2 DEF SubmitOpen
<1>6. CallsObserved'
  <2>1. \A m \in 1..MaxSubmits : SubmitOpen(m)' <=> submitting' = m
    BY <1>3, <1>4, <1>5 DEF SubmitOpen
  <2>2. \A l \in Local : SyncOpen(l)' <=> syncing' = l
    BY <1>1 DEF WaitOK, CallsObserved, SyncOpen
  <2> QED
    BY <1>1, <2>1, <2>2 DEF WaitOK, CallsObserved, NoCalls
<1>7. ~ Granted' /\ GrantedOK'
  BY <1>4, <1>5 DEF Granted, GrantedOK
<1>8. CallsCurrent'
  <2>1. \A l \in Local : sync'[l].state # "asked"
    BY <1>1, <1>2 DEF SyncOpen
  <2> QED
    BY <1>1, <1>4, <1>5, <2>1 DEF CallsCurrent, Client!EntriesOf
<1>9. OnlyPlaced' /\ AnswersCurrent' /\ RowsHaveReport' /\ StoredOnce'
  BY <1>1 DEF WaitOK, OnlyPlaced, AnswersCurrent, RowsAreOf, RowsHaveReport, StoredOnce,
              RowsOf, Exists
<1>10. JourneysKnown'
  BY <1>1, <1>2 DEF WaitOK, JourneysKnown, Drafted, RowsAreOf, Exists
<1>11. Accounted'
  BY <1>1, <1>2 DEF WaitOK, Accounted, Exists
<1> QED
  BY <1>6, <1>7, <1>8, <1>9, <1>10, <1>11 DEF WaitOK

\* When the observed call is over, none is under way.
LEMMA SyncOver ==
    ASSUME TypeOK, WaitOK, NEW l \in Local, syncing = l, syncing' = Client!NoObject,
           sync' = [sync EXCEPT ![l] = Client!SyncIs("over")],
           UNCHANGED <<submit, submitting, finishedJourney>>
    PROVE  /\ finishedJourney = Nil /\ submitting = 0 /\ currentJourney # Nil
           /\ ~ Granted /\ ~ Granted' /\ (currentJourney' = Nil \/ finishedJourney' = Nil)
           /\ l \in currentJourney.objects \ rewritten /\ serverId[l] = Client!NoId
           /\ \A k \in Local : sync'[k].state \notin {"asked", "answered", "refused"}
           /\ \A k \in Local \ {l} : sync'[k] = sync[k] /\ sync[k].state # "answered"
           /\ \A n \in 1..MaxSubmits : submit[n].state \notin {"asked", "accepted", "refused"}
<1>1. l # Client!NoObject
  BY PageConstants
<1>2. /\ finishedJourney = Nil /\ submitting = 0 /\ currentJourney # Nil
      /\ l \in currentJourney.objects \ rewritten /\ serverId[l] = Client!NoId
  BY <1>1 DEF WaitOK, CallsObserved
<1>3. \A k \in Local \ {l} : sync'[k] = sync[k] /\ ~ SyncOpen(k)
  BY DEF WaitOK, CallsObserved
<1>4. sync'[l].state = "over"
  BY DEF TypeOK, Client!TypeOK, Client!SyncIs
<1>5. ~ Granted /\ \A n \in 1..MaxSubmits : ~ SubmitOpen(n)
  BY <1>2, NothingOpen DEF WaitOK
<1>6. ~ Granted'
  BY <1>5 DEF Granted
<1> QED
  BY <1>2, <1>3, <1>4, <1>5, <1>6 DEF SyncOpen, SubmitOpen

\* The page learns of the row that was made, in the draft that was its or is now.
LEMMA AnsweredKeepsWait ==
    ASSUME TypeOK, WaitOK, UNCHANGED <<report, object, origin>>,
           NEW l \in Local, Client!SyncAnswered(l)
    PROVE  WaitOK'
<1> USE DEF TypeOK, Client!TypeOK
<1>1. /\ syncing = l /\ syncing' = Client!NoObject /\ sync[l].state = "answered"
      /\ sync' = [sync EXCEPT ![l] = Client!SyncIs("over")]
      /\ UNCHANGED <<submit, submitting, finishedJourney, placed, deleted, rewritten>>
  BY DEF Client!SyncAnswered
<1>2. /\ finishedJourney = Nil /\ submitting = 0 /\ currentJourney # Nil
      /\ ~ Granted /\ ~ Granted'
      /\ l \in currentJourney.objects \ rewritten /\ serverId[l] = Client!NoId
      /\ \A k \in Local : sync'[k].state \notin {"asked", "answered", "refused"}
      /\ \A k \in Local \ {l} : sync'[k] = sync[k] /\ sync[k].state # "answered"
      /\ \A n \in 1..MaxSubmits : submit[n].state \notin {"asked", "accepted", "refused"}
  BY <1>1, SyncOver
<1>3. /\ currentJourney \in Client!Journey
      /\ currentJourney' = [currentJourney EXCEPT !.id = sync[l].journey]
      /\ serverId' = [serverId EXCEPT ![l] = sync[l].object]
  BY <1>2 DEF Nil, Client!SyncAnswered
<1>4. /\ sync[l].journey \in Report /\ report[sync[l].journey] = "draft"
      /\ currentJourney.id \in {Client!NoId, sync[l].journey}
      /\ Exists(sync[l].object) /\ object[sync[l].object].report = sync[l].journey
      /\ RowsAreOf(sync[l].journey, currentJourney.objects)
  BY <1>1 DEF WaitOK, AnswersCurrent
<1>5. /\ currentJourney'.id = sync[l].journey
      /\ currentJourney'.objects = currentJourney.objects
      /\ currentJourney' \in Client!Journey
  BY <1>3, <1>4 DEF Client!Journey
<1>6. CallsObserved' /\ CallsCurrent' /\ AnswersCurrent' /\ GrantedOK'
  <2>1. \A k \in Local : k # Client!NoObject
    BY PageConstants
  <2>2. \A k \in Local : SyncOpen(k)' <=> syncing' = k
    BY <1>1, <1>2, <2>1 DEF SyncOpen
  <2>3. \A n \in 1..MaxSubmits : SubmitOpen(n)' <=> submitting' = n
    BY <1>1 DEF WaitOK, CallsObserved, SubmitOpen
  <2>4. CallsObserved'
    BY <1>1, <1>2, <2>2, <2>3 DEF CallsObserved
  <2>5. CallsCurrent' /\ AnswersCurrent' /\ GrantedOK'
    BY <1>1, <1>2 DEF CallsCurrent, AnswersCurrent, GrantedOK
  <2> QED
    BY <2>4, <2>5
<1>7. OnlyPlaced'
  <2>1. l \in placed
    BY <1>2 DEF WaitOK, OnlyPlaced
  <2> QED
    BY <1>1, <1>2, <1>3, <1>5, <2>1 DEF WaitOK, OnlyPlaced
<1>8. JourneysKnown'
  <2>1. RowsAreOf(currentJourney.id, currentJourney.objects)'
    BY <1>4, <1>5 DEF RowsAreOf, Exists
  <2>2. sync[l].journey # Client!NoId
    BY <1>4, PageConstants
  <2>3. ASSUME NEW k \in currentJourney'.objects, serverId'[k] # Client!NoId,
               Exists(serverId'[k])
        PROVE  object[serverId'[k]].report = currentJourney'.id
    <3>1. CASE k = l
      BY <1>3, <1>4, <1>5, <3>1
    <3>2. CASE k # l
      <4>1. serverId'[k] = serverId[k] /\ k \in currentJourney.objects
        BY <1>3, <1>5, <3>2
      <4>2. Drafted(currentJourney)
        BY <1>2 DEF WaitOK, JourneysKnown
      <4> QED
        BY <1>4, <1>5, <2>3, <4>1, <4>2 DEF Drafted
    <3> QED
      BY <3>1, <3>2
  <2>4. Drafted(currentJourney)'
    BY <1>4, <1>5, <2>2, <2>3 DEF Drafted, Exists
  <2> QED
    BY <1>1, <1>2, <2>1, <2>4 DEF JourneysKnown
<1>9. RowsHaveReport' /\ StoredOnce'
  BY DEF WaitOK, RowsHaveReport, StoredOnce, RowsOf, Exists
<1>10. Accounted'
  <2>1. ASSUME NEW o \in Object, Exists(o)
        PROVE  serverId'[origin[o]] = o
               \/ origin[o] \notin currentJourney'.objects \cup finishedJourney'.objects
    <3>1. origin[o] \in Local
      BY <2>1 DEF WaitOK, RowsHaveReport
    <3>2. \/ serverId[origin[o]] = o
          \/ sync[origin[o]].state = "answered" /\ sync[origin[o]].object = o
          \/ origin[o] \notin currentJourney.objects \cup finishedJourney.objects
      BY <1>2, <2>1 DEF WaitOK, Accounted
    <3>3. CASE origin[o] = l
      <4>1. o # Client!NoId
        BY PageConstants
      <4> QED
        BY <1>2, <1>3, <3>2, <3>3, <4>1
    <3>4. CASE origin[o] # l
      BY <1>1, <1>2, <1>3, <1>5, <3>1, <3>2, <3>4
    <3> QED
      BY <3>3, <3>4
  <2> QED
    BY <2>1 DEF Accounted, Exists
<1> QED
  BY <1>6, <1>7, <1>8, <1>9, <1>10 DEF WaitOK

\* A refused call left no row.
LEMMA FailedKeepsWait ==
    ASSUME WaitingUser, TypeOK, WaitOK, UNCHANGED <<report, object, origin>>,
           NEW l \in Local, Client!SyncFailed(l)
    PROVE  WaitOK'
<1> USE DEF TypeOK, Client!TypeOK
<1>1. /\ syncing = l /\ syncing' = Client!NoObject /\ sync[l].state = "refused"
      /\ sync' = [sync EXCEPT ![l] = Client!SyncIs("over")]
      /\ UNCHANGED <<currentJourney, finishedJourney, Knows, submit, submitting>>
  BY DEF WaitingUser, Client!SyncFailed, Client!journeys, Client!objects, Knows
<1>2. /\ finishedJourney = Nil /\ submitting = 0 /\ currentJourney # Nil
      /\ ~ Granted /\ ~ Granted'
      /\ l \in currentJourney.objects \ rewritten /\ serverId[l] = Client!NoId
      /\ \A k \in Local : sync'[k].state \notin {"asked", "answered", "refused"}
      /\ \A k \in Local \ {l} : sync'[k] = sync[k] /\ sync[k].state # "answered"
      /\ \A n \in 1..MaxSubmits : submit[n].state \notin {"asked", "accepted", "refused"}
  BY <1>1, SyncOver
<1>3. CallsObserved'
  <2>1. \A k \in Local : k # Client!NoObject
    BY PageConstants
  <2>2. \A k \in Local : SyncOpen(k)' <=> syncing' = k
    BY <1>1, <1>2, <2>1 DEF SyncOpen
  <2>3. \A n \in 1..MaxSubmits : SubmitOpen(n)' <=> submitting' = n
    BY <1>1 DEF WaitOK, CallsObserved, SubmitOpen
  <2> QED
    BY <1>1, <1>2, <2>2, <2>3 DEF CallsObserved
<1>4. CallsCurrent' /\ AnswersCurrent' /\ GrantedOK'
  BY <1>1, <1>2 DEF CallsCurrent, AnswersCurrent, GrantedOK
<1>5. OnlyPlaced'
  <2>1. l \in placed
    BY <1>2 DEF WaitOK, OnlyPlaced
  <2> QED
    BY <1>1, <1>2, <2>1 DEF WaitOK, OnlyPlaced, Knows
<1>6. JourneysKnown' /\ RowsHaveReport' /\ StoredOnce'
  BY <1>1, <1>2 DEF WaitOK, JourneysKnown, Drafted, RowsAreOf, RowsHaveReport, StoredOnce,
                    RowsOf, Exists, Knows
<1>7. Accounted'
  <2>1. \A k \in Local : sync[k].state # "answered"
    BY <1>1, <1>2
  <2> QED
    BY <1>1, <1>2, <2>1 DEF WaitOK, Accounted, RowsHaveReport, Exists, Knows
<1> QED
  BY <1>3, <1>4, <1>5, <1>6, <1>7 DEF WaitOK

\* An answer to the submission is the last thing under way: an accepted journey is let
\* go of, a refused one is what it was.
LEMMA SubmittedKeepsWait ==
    ASSUME WaitingUser, TypeOK, WaitOK, UNCHANGED <<report, object, origin>>,
           NEW n \in 1..MaxSubmits, Client!SubmitSucceeded(n) \/ Client!SubmitFailed(n)
    PROVE  WaitOK'
<1> USE DEF TypeOK, Client!TypeOK
<1>1. /\ submitting = n /\ submitting' = 0 /\ submit[n].state \in {"accepted", "refused"}
      /\ submit' = [submit EXCEPT ![n] = Client!SubmitIs("over")]
      /\ UNCHANGED <<currentJourney, Knows, sync, syncing>>
      /\ finishedJourney' = Nil \/ finishedJourney' = finishedJourney
      /\ submit[n].state = "accepted" => finishedJourney' = Nil
  BY DEF WaitingUser, Client!SubmitSucceeded, Client!SubmitFailed, Client!journeys,
         Client!objects, Knows, Nil
<1>2. \A m \in 1..MaxSubmits : m # 0
  BY PageConstants
<1>3. /\ syncing = Client!NoObject /\ currentJourney = Nil /\ finishedJourney # Nil
  BY <1>1, <1>2 DEF WaitOK, CallsObserved
<1>4. \A l \in Local : sync[l].state \notin {"asked", "answered", "refused"}
  BY <1>3, NothingOpen DEF WaitOK, SyncOpen
<1>5. \A m \in (1..MaxSubmits) \ {n} :
         submit'[m] = submit[m] /\ submit[m].state \notin {"asked", "accepted", "refused"}
  BY <1>1 DEF WaitOK, CallsObserved, SubmitOpen
<1>6. submit'[n].state = "over"
  BY <1>1 DEF Client!SubmitIs
<1>7. \A m \in 1..MaxSubmits : submit'[m].state \notin {"asked", "accepted", "refused"}
  BY <1>5, <1>6
<1>8. CallsObserved'
  <2>1. \A m \in 1..MaxSubmits : SubmitOpen(m)' <=> submitting' = m
    BY <1>1, <1>2, <1>7 DEF SubmitOpen
  <2>2. \A l \in Local : SyncOpen(l)' <=> syncing' = l
    BY <1>1 DEF WaitOK, CallsObserved, SyncOpen
  <2> QED
    BY <1>1, <1>3, <2>1, <2>2 DEF CallsObserved
<1>9. ~ Granted'
  BY <1>7 DEF Granted
<1>10. CallsCurrent' /\ AnswersCurrent' /\ GrantedOK'
  BY <1>1, <1>4, <1>7, <1>9 DEF CallsCurrent, AnswersCurrent, GrantedOK
<1>11. Nil.objects = {}
  BY DEF Nil, Client!Null
<1>12. OnlyPlaced'
  BY <1>1, <1>11 DEF WaitOK, OnlyPlaced, Knows
<1>13. finishedJourney' # Nil => ~ Granted /\ finishedJourney' = finishedJourney
  BY <1>1, <1>5 DEF Granted
<1>14. JourneysKnown'
  BY <1>1, <1>3, <1>13 DEF WaitOK, JourneysKnown, Drafted, RowsAreOf, Exists, Knows
<1>15. RowsHaveReport' /\ StoredOnce'
  BY DEF WaitOK, RowsHaveReport, StoredOnce, RowsOf, Exists
<1>16. Accounted'
  BY <1>1, <1>3, <1>11, <1>13 DEF WaitOK, Accounted, Exists, Knows
<1> QED
  BY <1>8, <1>9, <1>10, <1>12, <1>14, <1>15, <1>16 DEF WaitOK

\* A refusal makes no row and removes none.
LEMMA RefusedKeepsWait ==
    ASSUME TypeOK, WaitOK, Refuse
    PROVE  WaitOK'
<1> USE DEF TypeOK, Client!TypeOK
<1>1. /\ UNCHANGED <<currentJourney, finishedJourney, Knows, syncing, submitting>>
      /\ UNCHANGED <<report, object, origin>>
  BY DEF Refuse, page, Knows
<1>2. \A l \in Local : \/ sync'[l] = sync[l]
                       \/ sync[l].state = "asked" /\ sync'[l].state = "refused"
  <2>1. Client!SyncIs("refused").state = "refused"
    BY DEF Client!SyncIs
  <2>2. UNCHANGED sync \/ \E k \in Local :
           sync[k].state = "asked" /\ sync' = [sync EXCEPT ![k] = Client!SyncIs("refused")]
    BY DEF Refuse
  <2> QED
    BY <2>1, <2>2
<1>3. \A n \in 1..MaxSubmits : \/ submit'[n] = submit[n]
                               \/ submit[n].state = "asked" /\ submit'[n].state = "refused"
  <2>1. Client!SubmitIs("refused").state = "refused"
    BY DEF Client!SubmitIs
  <2>2. UNCHANGED submit \/ \E m \in 1..MaxSubmits :
           submit[m].state = "asked"
           /\ submit' = [submit EXCEPT ![m] = Client!SubmitIs("refused")]
    BY DEF Refuse
  <2> QED
    BY <2>1, <2>2
<1>4. CallsObserved'
  BY <1>1, <1>2, <1>3 DEF WaitOK, CallsObserved, SyncOpen, SubmitOpen, Knows
<1>5. Granted' <=> Granted
  BY <1>3 DEF Granted
<1>6. CallsCurrent'
  BY <1>1, <1>2, <1>3 DEF WaitOK, CallsCurrent, Client!EntriesOf, Knows
<1>7. OnlyPlaced'
  BY <1>1, <1>2 DEF WaitOK, OnlyPlaced, Knows
<1>8. JourneysKnown'
  BY <1>1, <1>5 DEF WaitOK, JourneysKnown, Drafted, RowsAreOf, Exists, Knows
<1>9. AnswersCurrent'
  BY <1>1, <1>2 DEF WaitOK, AnswersCurrent, RowsAreOf, Exists
<1>10. RowsHaveReport' /\ StoredOnce' /\ GrantedOK'
  BY <1>1, <1>5 DEF WaitOK, RowsHaveReport, StoredOnce, GrantedOK, RowsOf, Exists, Knows
<1>11. Accounted'
  BY <1>1, <1>2, <1>5 DEF WaitOK, Accounted, RowsHaveReport, Exists, Knows
<1> QED
  BY <1>4, <1>6, <1>7, <1>8, <1>9, <1>10, <1>11 DEF WaitOK

\* The draft a SyncObject goes to is the one of the current journey, or is a new one.
LEMMA DraftIsKnown ==
    ASSUME TypeOK, WaitOK, NEW l \in Local, sync[l].state = "asked",
           NEW rp \in DraftFor(sync[l].journey)
    PROVE  /\ rp \in Report /\ report[rp] \in {"none", "draft"}
           /\ currentJourney.id \in {Client!NoId, rp}
           /\ RowsAreOf(rp, currentJourney.objects)
<1>1. /\ sync[l].journey = currentJourney.id /\ l # Client!NoObject /\ syncing = l
  BY PageConstants DEF WaitOK, CallsCurrent, CallsObserved, SyncOpen
<1>2. currentJourney # Nil
  BY <1>1 DEF WaitOK, CallsObserved
<1>3. currentJourney.id \in Report \cup {Client!NoId}
  BY <1>2 DEF TypeOK, Client!TypeOK, Client!Journey, Nil
<1>4. /\ currentJourney.id # Client!NoId => report[currentJourney.id] = "draft"
      /\ RowsAreOf(currentJourney.id, currentJourney.objects)
  BY <1>2 DEF WaitOK, JourneysKnown, Drafted
<1>5. CASE currentJourney.id # Client!NoId
  BY <1>1, <1>3, <1>4, <1>5 DEF DraftFor
<1>6. CASE currentJourney.id = Client!NoId
  <2>1. rp \in Report /\ report[rp] = "none"
    BY <1>1, <1>6, PageConstants DEF DraftFor
  <2>2. RowsAreOf(rp, currentJourney.objects)
    BY <2>1 DEF RowsAreOf, WaitOK, RowsHaveReport
  <2> QED
    BY <1>6, <2>1, <2>2
<1> QED
  BY <1>5, <1>6

\* The row made for an object is its only one, and in the report of its journey.
LEMMA ServedKeepsWait ==
    ASSUME TypeOK, TypeOK', Ids, WaitOK, NEW l \in Local, ServeSync(l)
    PROVE  WaitOK'
<1> USE DEF TypeOK, Client!TypeOK
<1>1. /\ sync[l].state = "asked"
      /\ UNCHANGED <<currentJourney, finishedJourney, Knows, syncing, submit, submitting>>
  BY DEF ServeSync, page, Knows
<1>2. PICK rp \in DraftFor(sync[l].journey), o \in Object :
         /\ object[o] = NoRow
         /\ report' = [report EXCEPT ![rp] = "draft"]
         /\ object' = [object EXCEPT ![o] = [report |-> rp, status |-> "draft"]]
         /\ origin' = [origin EXCEPT ![o] = l]
         /\ sync' = [sync EXCEPT ![l] = [state |-> "answered", journey |-> rp,
                                         object |-> o]]
  BY DEF ServeSync
<1>3. /\ rp \in Report /\ report[rp] \in {"none", "draft"}
      /\ currentJourney.id \in {Client!NoId, rp}
      /\ RowsAreOf(rp, currentJourney.objects)
  BY <1>1, DraftIsKnown
<1>4. l # Client!NoObject /\ syncing = l
  BY <1>1, PageConstants DEF WaitOK, CallsObserved, SyncOpen
<1>5. /\ currentJourney # Nil /\ finishedJourney = Nil /\ submitting = 0
      /\ l \in currentJourney.objects \ rewritten /\ serverId[l] = Client!NoId
      /\ \A k \in Local \ {l} : sync[k].state \notin {"asked", "answered", "refused"}
  BY <1>4 DEF WaitOK, CallsObserved, SyncOpen
<1>6. ~ Granted /\ \A n \in 1..MaxSubmits : submit[n].state # "asked"
  BY <1>5, NothingOpen DEF WaitOK, SubmitOpen
<1>7. /\ sync'[l].state = "answered" /\ sync'[l].journey = rp /\ sync'[l].object = o
      /\ \A k \in Local \ {l} : sync'[k] = sync[k]
  BY <1>2
<1>8. /\ Exists(o)' /\ object'[o].report = rp /\ origin'[o] = l /\ ~ Exists(o)
      /\ \A p \in Object \ {o} : object'[p] = object[p] /\ origin'[p] = origin[p]
  BY <1>2 DEF Exists, ObjectStatus, NoRow
<1>9. /\ report'[rp] = "draft" /\ \A q \in Report \ {rp} : report'[q] = report[q]
      /\ \A q \in Report : report[q] = "draft" => report'[q] = "draft"
  BY <1>2, <1>3
<1>10. \A p \in Object : Exists(p) => origin[p] # l
  <2>1. ASSUME NEW p \in Object, Exists(p), origin[p] = l PROVE FALSE
    <3>1. serverId[l] # p
      BY <1>5, PageConstants
    <3>2. sync[l].state # "answered"
      BY <1>1
    <3> QED
      BY <1>5, <1>6, <2>1, <3>1, <3>2 DEF WaitOK, Accounted
  <2> QED
    BY <2>1
<1>11. \A k \in Local : serverId[k] # o
  <2>1. origin[o] = NoOrigin
    BY <1>2 DEF Ids, FreeKeys
  <2>2. ASSUME NEW k \in Local, serverId[k] = o PROVE FALSE
    <3>1. o # Client!NoId
      BY PageConstants
    <3>2. origin[o] = k
      BY <2>2, <3>1 DEF Ids, RightIds, NoId
    <3> QED
      BY <2>1, <3>2, OriginAssumption
  <2> QED
    BY <2>2
<1>12. CallsObserved'
  BY <1>1, <1>4, <1>5, <1>7 DEF WaitOK, CallsObserved, SyncOpen, SubmitOpen, Knows
<1>13. CallsCurrent'
  BY <1>1, <1>5, <1>6, <1>7 DEF CallsCurrent
<1>14. OnlyPlaced'
  <2>1. l \in placed
    BY <1>5 DEF WaitOK, OnlyPlaced
  <2> QED
    BY <1>1, <1>7, <1>8, <2>1 DEF WaitOK, OnlyPlaced, Knows
<1>15. RowsAreOf(rp, currentJourney.objects)'
  BY <1>1, <1>3, <1>5, <1>8 DEF RowsAreOf, Exists
<1>16. JourneysKnown'
  <2>1. RowsAreOf(currentJourney.id, currentJourney.objects)'
    <3>1. CASE currentJourney.id = rp
      BY <1>1, <1>15, <3>1
    <3>2. CASE currentJourney.id = Client!NoId
      <4>1. \A p \in Object : Exists(p)' => object'[p].report \in Report
        BY <1>3, <1>8 DEF WaitOK, RowsHaveReport, Exists
      <4> QED
        BY <1>1, <3>2, <4>1, PageConstants DEF RowsAreOf
    <3> QED
      BY <1>3, <3>1, <3>2
  <2>2. Drafted(currentJourney)'
    <3>1. Drafted(currentJourney)
      BY <1>5 DEF WaitOK, JourneysKnown
    <3>2. ASSUME NEW k \in currentJourney.objects, serverId[k] # Client!NoId, Exists(serverId[k])'
          PROVE  object'[serverId[k]].report = currentJourney.id
      <4>1. k \in Local /\ serverId[k] \in Object
        BY <1>5, <3>2 DEF Nil, Client!Journey
      <4>2. serverId[k] # o
        BY <1>11, <4>1
      <4> QED
        BY <1>1, <1>8, <3>1, <3>2, <4>1, <4>2 DEF Drafted, Exists, Knows
    <3> QED
      BY <1>1, <1>3, <1>9, <3>1, <3>2 DEF Drafted, Knows
  <2> QED
    BY <1>1, <1>5, <2>1, <2>2 DEF JourneysKnown
<1>17. AnswersCurrent'
  <2>1. \A k \in Local \ {l} : sync'[k].state # "answered"
    BY <1>5, <1>7
  <2> QED
    BY <1>1, <1>3, <1>7, <1>8, <1>9, <1>15, <2>1 DEF AnswersCurrent
<1>18. RowsHaveReport'
  BY <1>3, <1>8, <1>9 DEF WaitOK, RowsHaveReport, Exists
<1>19. Accounted'
  <2>1. ASSUME NEW p \in Object, Exists(p)'
        PROVE  \/ serverId'[origin'[p]] = p
               \/ sync'[origin'[p]].state = "answered" /\ sync'[origin'[p]].object = p
               \/ origin'[p] \notin currentJourney'.objects \cup finishedJourney'.objects
    <3>1. CASE p = o
      BY <1>7, <1>8, <3>1
    <3>2. CASE p # o
      <4>1. Exists(p) /\ origin'[p] = origin[p] /\ origin[p] \in Local \ {l}
        BY <1>8, <1>10, <2>1, <3>2 DEF Exists, WaitOK, RowsHaveReport
      <4> QED
        BY <1>1, <1>5, <1>6, <1>7, <4>1 DEF WaitOK, Accounted, Knows
    <3> QED
      BY <3>1, <3>2
  <2> QED
    BY <2>1 DEF Accounted
<1>20. GrantedOK'
  BY <1>1, <1>6 DEF GrantedOK, Granted
<1>21. StoredOnce'
  <2>1. ASSUME NEW k \in Local, NEW p \in Object, NEW q \in Object,
               Exists(p)', Exists(q)', origin'[p] = k, origin'[q] = k
        PROVE  p = q
    <3>1. \A r \in Object \ {o} : Exists(r)' => Exists(r) /\ origin'[r] = origin[r]
      BY <1>8 DEF Exists
    <3>2. CASE k = l
      BY <1>8, <1>10, <2>1, <3>1, <3>2
    <3>3. CASE k # l
      BY <1>8, <2>1, <3>1, <3>3 DEF WaitOK, StoredOnce, RowsOf
    <3> QED
      BY <3>2, <3>3
  <2> QED
    BY <2>1 DEF StoredOnce, RowsOf
<1> QED
  BY <1>12, <1>13, <1>14, <1>16, <1>17, <1>18, <1>19, <1>20, <1>21 DEF WaitOK

\* The submission that is served is of the finished journey as it is.
LEMMA ServedIsFinished ==
    ASSUME TypeOK, WaitOK, NEW n \in 1..MaxSubmits, submit[n].state = "asked"
    PROVE  /\ finishedJourney # Nil /\ finishedJourney \in Client!Journey
           /\ currentJourney = Nil /\ syncing = Client!NoObject /\ ~ Granted
           /\ submit[n].journey = finishedJourney.id
           /\ submit[n].entries = Client!EntriesOf(finishedJourney)
           /\ Drafted(finishedJourney)
           /\ RowsAreOf(finishedJourney.id, finishedJourney.objects)
           /\ \A l \in Local : sync[l].state \notin {"asked", "answered", "refused"}
           /\ \A m \in (1..MaxSubmits) \ {n} :
                  submit[m].state \notin {"asked", "accepted", "refused"}
<1> USE DEF TypeOK, Client!TypeOK
<1>1. n # 0 /\ submitting = n
  BY PageConstants DEF WaitOK, CallsObserved, SubmitOpen
<1>2. finishedJourney # Nil /\ currentJourney = Nil /\ syncing = Client!NoObject
  BY <1>1 DEF WaitOK, CallsObserved
<1>3. \A l \in Local : ~ SyncOpen(l)
  BY <1>2, NothingOpen DEF WaitOK
<1>4. \A m \in (1..MaxSubmits) \ {n} : ~ SubmitOpen(m)
  BY <1>1 DEF WaitOK, CallsObserved
<1>5. ~ Granted
  BY <1>4 DEF Granted, SubmitOpen
<1> QED
  BY <1>2, <1>3, <1>4, <1>5
     DEF WaitOK, CallsCurrent, JourneysKnown, SyncOpen, SubmitOpen, Nil

\* What the page says of an object of the finished journey is all there is of it: the
\* row it has the id of, if that still exists, in the report of the journey.
LEMMA FinishedIsKnown ==
    ASSUME TypeOK, WaitOK, NEW n \in 1..MaxSubmits, submit[n].state = "asked",
           NEW l \in finishedJourney.objects, NEW o \in Object, Exists(o), origin[o] = l
    PROVE  /\ serverId[l] = o /\ object[o].report = finishedJourney.id
           /\ Found(l, submit[n].journey, submit[n].entries)
           /\ submit[n].entries.ids[l] = o
<1>1. /\ finishedJourney \in Client!Journey /\ ~ Granted
      /\ submit[n].journey = finishedJourney.id
      /\ submit[n].entries = Client!EntriesOf(finishedJourney)
      /\ Drafted(finishedJourney)
      /\ \A k \in Local : sync[k].state # "answered"
  BY ServedIsFinished
<1>2. l \in Local
  BY <1>1 DEF Client!Journey
<1>3. serverId[l] = o
  BY <1>1, <1>2 DEF WaitOK, Accounted
<1>4. object[o].report = finishedJourney.id
  BY <1>1, <1>3, PageConstants DEF Drafted
<1>5. submit[n].entries.ids[l] = o
  BY <1>1, <1>2, <1>3 DEF Client!EntriesOf
<1> QED
  BY <1>1, <1>3, <1>4, <1>5 DEF Found, ObjectsOf

\* A submission that is served leaves each object of the journey one row, and those the
\* user deleted none.
LEMMA AcceptedKeepsWait ==
    ASSUME TypeOK, TypeOK', Ids, WaitOK, NEW n \in 1..MaxSubmits, ServeSubmit(n)
    PROVE  WaitOK'
<1> USE DEF TypeOK, Client!TypeOK
<1> DEFINE rp == submit[n].journey
           entries == submit[n].entries
           removed == {entries.ids[l] : l \in {k \in entries.dropped :
                                                  Found(k, rp, entries)}}
           new == Unknown(rp, entries)
<1>1. /\ submit[n].state = "asked" /\ rp \in Report /\ report[rp] = "draft"
      /\ report' = [report EXCEPT ![rp] = "submitted"]
      /\ submit' = [submit EXCEPT ![n] = Client!SubmitIs("accepted")]
      /\ UNCHANGED <<currentJourney, finishedJourney, Knows, sync, syncing, submitting>>
  BY DEF ServeSubmit, page, Knows
<1>2. PICK key \in [new -> {o \in Object : object[o] = NoRow}] :
         /\ \A k, l \in new : key[k] = key[l] => k = l
         /\ object' = [o \in Object |->
                IF o \in removed THEN [object[o] EXCEPT !.status = "deleted"]
                ELSE IF \E l \in new : key[l] = o
                     THEN [report |-> rp, status |-> "draft"]
                     ELSE object[o]]
         /\ origin' = [o \in Object |->
                IF \E l \in new : key[l] = o THEN CHOOSE l \in new : key[l] = o
                ELSE origin[o]]
  BY DEF ServeSubmit
<1>3. /\ finishedJourney # Nil /\ finishedJourney \in Client!Journey
      /\ currentJourney = Nil /\ syncing = Client!NoObject /\ ~ Granted
      /\ rp = finishedJourney.id /\ entries = Client!EntriesOf(finishedJourney)
      /\ Drafted(finishedJourney)
      /\ RowsAreOf(finishedJourney.id, finishedJourney.objects)
      /\ \A l \in Local : sync[l].state \notin {"asked", "answered", "refused"}
      /\ \A m \in (1..MaxSubmits) \ {n} :
             submit[m].state \notin {"asked", "accepted", "refused"}
  BY <1>1, ServedIsFinished
<1>4. /\ entries.kept = finishedJourney.objects \ deleted
      /\ entries.dropped = finishedJourney.objects \cap deleted
  BY <1>3 DEF Client!EntriesOf
<1>5. \A l \in finishedJourney.objects, o \in Object : Exists(o) /\ origin[o] = l =>
         Found(l, rp, entries) /\ entries.ids[l] = o
  BY <1>1, FinishedIsKnown
<1>6. new \subseteq finishedJourney.objects \ deleted
  BY <1>4 DEF Unknown
<1>7. \A l \in new, o \in Object : Exists(o) => origin[o] # l
  BY <1>5, <1>6 DEF Unknown
<1>8. \A l \in finishedJourney.objects \cap deleted, o \in Object :
         Exists(o) /\ origin[o] = l => o \in removed
  BY <1>4, <1>5
<1> HIDE DEF removed, new, rp, entries
\* Each row is one that was there, or the only one made for a new object.
<1>9. ASSUME NEW o \in Object, Exists(o)'
      PROVE  \/ /\ Exists(o) /\ object'[o] = object[o] /\ origin'[o] = origin[o]
                /\ o \notin removed
             \/ /\ \E l \in new : key[l] = o /\ origin'[o] = l
                /\ object'[o].report = rp /\ ~ Exists(o)
  <2>1. o \notin removed
    BY <1>2, <1>9 DEF Exists, ObjectStatus, ObjectRow
  <2>2. CASE \E l \in new : key[l] = o
    <3>1. object[o] = NoRow
      BY <1>2, <2>2
    <3>2. PICK l \in new : key[l] = o /\ origin'[o] = l
      BY <1>2, <2>2
    <3>3. object'[o].report = rp
      BY <1>2, <2>1, <2>2
    <3> QED
      BY <3>1, <3>2, <3>3 DEF Exists, NoRow, ObjectStatus
  <2>3. CASE ~ \E l \in new : key[l] = o
    BY <1>2, <1>9, <2>1, <2>3 DEF Exists
  <2> QED
    BY <2>2, <2>3
<1>10. submit'[n].state = "accepted"
  BY <1>1 DEF Client!SubmitIs
<1>11. \A m \in (1..MaxSubmits) \ {n} : submit'[m] = submit[m]
  BY <1>1
<1>12. Granted'
  BY <1>10 DEF Granted
<1>13. CallsObserved'
  <2>1. \A m \in 1..MaxSubmits : SubmitOpen(m)' <=> submitting' = m
    BY <1>1, <1>10, <1>11 DEF WaitOK, CallsObserved, SubmitOpen
  <2>2. \A l \in Local : SyncOpen(l)' <=> syncing' = l
    BY <1>1 DEF WaitOK, CallsObserved, SyncOpen
  <2> QED
    BY <1>1, <2>1, <2>2 DEF WaitOK, CallsObserved, Knows
<1>14. CallsCurrent' /\ AnswersCurrent'
  <2>1. \A m \in 1..MaxSubmits : submit'[m].state # "asked"
    BY <1>3, <1>10, <1>11
  <2>2. \A l \in Local : sync'[l].state \notin {"asked", "answered"}
    BY <1>1, <1>3
  <2> QED
    BY <2>1, <2>2 DEF CallsCurrent, AnswersCurrent
<1>15. \A o \in Object : \/ origin'[o] = origin[o]
                         \/ origin'[o] \in finishedJourney.objects
  <2>1. ASSUME NEW o \in Object, \E l \in new : key[l] = o
        PROVE  origin'[o] \in new
    BY <1>2, <2>1
  <2> QED
    BY <1>2, <1>6, <2>1
<1>16. OnlyPlaced'
  BY <1>1, <1>15 DEF WaitOK, OnlyPlaced, Knows
<1>17. JourneysKnown'
  <2>1. ASSUME NEW o \in Object, Exists(o)', object'[o].report = finishedJourney.id
        PROVE  origin'[o] \in finishedJourney.objects
    BY <1>3, <1>6, <1>9, <2>1 DEF RowsAreOf
  <2> QED
    BY <1>1, <1>3, <1>12, <2>1 DEF JourneysKnown, RowsAreOf
<1>18. RowsHaveReport'
  <2>1. ASSUME NEW o \in Object, Exists(o)'
        PROVE  /\ object'[o].report \in Report /\ report'[object'[o].report] # "none"
               /\ origin'[o] \in Local
    <3>1. CASE Exists(o) /\ object'[o] = object[o] /\ origin'[o] = origin[o]
      BY <1>1, <3>1 DEF WaitOK, RowsHaveReport
    <3>2. CASE \E l \in new : origin'[o] = l /\ object'[o].report = rp
      BY <1>1, <1>3, <1>6, <3>2 DEF Client!Journey
    <3> QED
      BY <1>9, <2>1, <3>1, <3>2
  <2> QED
    BY <2>1 DEF RowsHaveReport
<1>19. Accounted'
  BY <1>12 DEF Accounted
<1>20. GrantedOK'
  <2>1. ASSUME NEW l \in finishedJourney.objects \cap deleted, NEW o \in Object,
               Exists(o)', origin'[o] = l
        PROVE  FALSE
    BY <1>6, <1>8, <1>9, <2>1
  <2> QED
    BY <1>1, <2>1 DEF GrantedOK, RowsOf, Knows
<1>21. StoredOnce'
  <2>1. ASSUME NEW k \in Local, NEW p \in Object, NEW q \in Object,
               Exists(p)', Exists(q)', origin'[p] = k, origin'[q] = k
        PROVE  p = q
    <3>1. CASE k \in new
      BY <1>2, <1>7, <1>9, <2>1, <3>1
    <3>2. CASE k \notin new
      <4>1. Exists(p) /\ Exists(q) /\ origin[p] = k /\ origin[q] = k
        BY <1>9, <2>1, <3>2
      <4> QED
        BY <4>1 DEF WaitOK, StoredOnce, RowsOf
    <3> QED
      BY <3>1, <3>2
  <2> QED
    BY <2>1 DEF StoredOnce, RowsOf
<1> QED
  BY <1>13, <1>14, <1>16, <1>17, <1>18, <1>19, <1>20, <1>21 DEF WaitOK

\* A review decides no draft, and the rows stay where they are.
LEMMA ReviewedKeepsWait ==
    ASSUME WaitingUser, TypeOK, Ids, WaitOK, Review
    PROVE  WaitOK'
<1> USE DEF TypeOK, Client!TypeOK
<1>1. UNCHANGED <<currentJourney, finishedJourney, placed, serverId, deleted, rewritten,
                  sync, syncing, submit, submitting, origin>>
  BY ReviewEffect DEF page
<1>2. \A o \in Object :
         /\ object'[o].report = object[o].report
         /\ object'[o].status \in ObjectStatus <=> object[o].status \in ObjectStatus
  BY ReviewEffect DEF Exists
<1>3. \A rp \in Report :
         /\ report[rp] = "draft" => report'[rp] = "draft"
         /\ report[rp] # "none" => report'[rp] # "none"
  BY ReviewEffect DEF WaitingUser, Decided
<1>4. CallsObserved' /\ CallsCurrent' /\ OnlyPlaced'
  BY <1>1 DEF WaitOK, CallsObserved, SyncOpen, SubmitOpen, CallsCurrent, OnlyPlaced,
              Client!EntriesOf
<1>5. Granted' <=> Granted
  BY <1>1 DEF Granted
<1>6. \A rp, objects : RowsAreOf(rp, objects) =>
         \A o \in Object : Exists(o)' /\ object'[o].report = rp => origin'[o] \in objects
  BY <1>1, <1>2 DEF RowsAreOf, Exists
<1>7. ASSUME NEW j \in Client!Journey, Drafted(j)
      PROVE  /\ j.id = Client!NoId => \A l \in j.objects : serverId'[l] = Client!NoId
             /\ j.id # Client!NoId => report'[j.id] = "draft"
             /\ \A l \in j.objects :
                    serverId'[l] # Client!NoId /\ Exists(serverId[l])'
                        => object'[serverId[l]].report = j.id
  <2>1. j.id # Client!NoId => report'[j.id] = "draft"
    BY <1>3, <1>7 DEF Drafted, Client!Journey
  <2>2. \A l \in j.objects : serverId[l] # Client!NoId => serverId[l] \in Object
    BY DEF Client!Journey
  <2> QED
    BY <1>1, <1>2, <1>7, <2>1, <2>2 DEF Drafted, Exists
<1>8. JourneysKnown'
  <2>1. currentJourney # Nil => Drafted(currentJourney)'
    BY <1>1, <1>7 DEF WaitOK, JourneysKnown, Drafted, Nil, Exists
  <2>2. finishedJourney # Nil /\ ~ Granted => Drafted(finishedJourney)'
    BY <1>1, <1>7 DEF WaitOK, JourneysKnown, Drafted, Nil, Exists
  <2>3. /\ currentJourney # Nil
              => RowsAreOf(currentJourney.id, currentJourney.objects)'
        /\ finishedJourney # Nil
              => RowsAreOf(finishedJourney.id, finishedJourney.objects)'
    BY <1>1, <1>6 DEF WaitOK, JourneysKnown, RowsAreOf, Exists
  <2> QED
    BY <1>1, <1>5, <2>1, <2>2, <2>3 DEF JourneysKnown
<1>9. AnswersCurrent'
  <2>1. ASSUME NEW l \in Local, sync'[l].state = "answered"
        PROVE  /\ sync[l].journey \in Report /\ report'[sync[l].journey] = "draft"
               /\ currentJourney.id \in {Client!NoId, sync[l].journey}
               /\ sync[l].object \in Object
               /\ Exists(sync[l].object)'
               /\ object'[sync[l].object].report = sync[l].journey
               /\ RowsAreOf(sync[l].journey, currentJourney.objects)'
    <3>1. /\ sync[l].journey \in Report /\ report[sync[l].journey] = "draft"
          /\ currentJourney.id \in {Client!NoId, sync[l].journey}
          /\ Exists(sync[l].object) /\ object[sync[l].object].report = sync[l].journey
          /\ RowsAreOf(sync[l].journey, currentJourney.objects)
      BY <1>1, <2>1 DEF WaitOK, AnswersCurrent
    <3>2. sync[l].object \in Object
      BY <1>1, <2>1 DEF Ids, AnswersRight
    <3>3. RowsAreOf(sync[l].journey, currentJourney.objects)'
      BY <1>1, <1>6, <3>1 DEF RowsAreOf, Exists
    <3> QED
      BY <1>1, <1>2, <1>3, <3>1, <3>2, <3>3 DEF Exists
  <2> QED
    BY <1>1, <2>1 DEF AnswersCurrent, Exists
<1>10. RowsHaveReport'
  BY <1>1, <1>2, <1>3 DEF WaitOK, RowsHaveReport, Exists
<1>11. Accounted'
  BY <1>1, <1>2, <1>5 DEF WaitOK, Accounted, Exists
<1>12. GrantedOK' /\ StoredOnce'
  BY <1>1, <1>2, <1>5 DEF WaitOK, GrantedOK, StoredOnce, RowsOf, Exists
<1> QED
  BY <1>4, <1>8, <1>9, <1>10, <1>11, <1>12 DEF WaitOK

\* All that is known of the page and the tables together.
PatientInv == TypeOK /\ Ids /\ WaitOK

\* Before anything is placed there is nothing to know.
LEMMA PatientInit == Init => PatientInv
<1> SUFFICES ASSUME Init PROVE PatientInv
  OBVIOUS
<1>1. /\ currentJourney = Nil /\ finishedJourney = Nil /\ placed = {} /\ rewritten = {}
      /\ serverId = [l \in Local |-> NoId] /\ submitting = 0 /\ syncing = Client!NoObject
      /\ sync = [l \in Local |-> Client!SyncIs("none")]
      /\ submit = [n \in 1..MaxSubmits |-> Client!SubmitIs("none")]
      /\ object = [o \in Object |-> NoRow]
      /\ origin = [o \in Object |-> NoOrigin]
  BY DEF Init, Client!Init, Nil, NoId
<1>2. /\ \A l \in Local : sync[l].state = "none" /\ l # Client!NoObject
      /\ \A n \in 1..MaxSubmits : submit[n].state = "none" /\ n # 0
      /\ \A o \in Object : ~ Exists(o)
      /\ Nil.objects = {}
  BY <1>1, PageConstants
     DEF Client!SyncIs, Client!SubmitIs, Exists, NoRow, ObjectStatus, Nil, Client!Null
<1>3. CallsObserved /\ CallsCurrent /\ AnswersCurrent
  BY <1>1, <1>2 DEF CallsObserved, SyncOpen, SubmitOpen, CallsCurrent, AnswersCurrent
<1>4. OnlyPlaced
  BY <1>1, <1>2, OriginAssumption DEF OnlyPlaced, NoId
<1>5. JourneysKnown /\ RowsHaveReport /\ Accounted /\ StoredOnce
  BY <1>1, <1>2 DEF JourneysKnown, RowsHaveReport, Accounted, StoredOnce, RowsOf
<1>6. GrantedOK
  BY <1>2 DEF GrantedOK, Granted
<1> QED
  BY <1>3, <1>4, <1>5, <1>6, TypesBegin, IdsBegin DEF PatientInv, WaitOK

\* Each step keeps it, of a user who waits.
LEMMA PatientStep == WaitingUser /\ PatientInv /\ [Next]_vars => PatientInv'
<1> SUFFICES ASSUME WaitingUser, PatientInv, [Next]_vars PROVE PatientInv'
  OBVIOUS
<1> USE DEF PatientInv
<1>1. TypeOK' /\ Ids'
  BY TypesStay, IdsStay
<1>2. CASE PageStep
  <2>1. UNCHANGED <<report, object, origin>> /\ CallsObserved
    BY <1>2 DEF PageStep, WaitOK
  <2> QED
    BY <1>1, <1>2, <2>1, PageSteps, CalmKeepsWait, HandedOnKeepsWait, UpdateKeepsWait,
       PlacedKeepsWait, SentKeepsWait, AnsweredKeepsWait, FailedKeepsWait,
       SubmittedKeepsWait
<1>3. CASE Server
  BY <1>1, <1>3, ServedKeepsWait, AcceptedKeepsWait, RefusedKeepsWait DEF Server
<1>4. CASE Review
  BY <1>1, <1>4, ReviewedKeepsWait
<1>5. CASE UNCHANGED vars
  <2>1. UNCHANGED <<currentJourney, finishedJourney, Knows, Calls, report, object, origin>>
    BY <1>5 DEF vars, page, Knows, Calls
  <2> QED
    BY <1>1, <2>1, CalmKeepsWait
<1> QED
  BY <1>1, <1>2, <1>3, <1>4, <1>5 DEF Next

\* No object of the page is stored twice, if the user waits for the answers and none is
\* lost: the one row an object has is known to the page before the journey is sent.
THEOREM PatientStoredOnce == WaitingUser => (Spec => []StoredOnce)
<1> SUFFICES ASSUME WaitingUser PROVE Spec => []StoredOnce
  OBVIOUS
<1>1. PatientInv /\ [Next]_vars => PatientInv'
  BY PatientStep
<1>2. PatientInv => StoredOnce
  BY DEF PatientInv, WaitOK
<1> QED
  BY PatientInit, <1>1, <1>2, PTL DEF Spec

\* The journey of a user who waits is its report: what is known of an object is all
\* there is of it, and it is in the report of the journey.
LEMMA KnownIsReport == PatientInv => JourneyIsReport
<1> SUFFICES ASSUME PatientInv PROVE JourneyIsReport
  OBVIOUS
<1> USE DEF PatientInv
<1>1. ASSUME NEW j \in {currentJourney, finishedJourney},
             ~ Granted, Drafted(j), RowsAreOf(j.id, j.objects)
      PROVE  Agrees(j)
  <2>1. ASSUME NEW l \in Local, Settled(l), NEW o \in RowsOf(l), l \in j.objects
        PROVE  object[o].report = j.id
    <3>1. o \in Object /\ Exists(o) /\ origin[o] = l
      BY DEF RowsOf
    <3>2. sync[l].state # "answered"
      BY <2>1 DEF Settled
    <3>3. serverId[l] = o
      BY <1>1, <2>1, <3>1, <3>2 DEF WaitOK, Accounted
    <3>4. o # Client!NoId
      BY <3>1, PageConstants
    <3> QED
      BY <1>1, <2>1, <3>1, <3>3, <3>4 DEF Drafted
  <2>2. ASSUME NEW l \in Local, NEW o \in RowsOf(l), object[o].report = j.id
        PROVE  l \in j.objects
    BY <1>1, <2>2 DEF RowsOf, RowsAreOf
  <2> QED
    BY <2>1, <2>2 DEF Agrees
<1>2. submitting = 0 => ~ Granted
  BY NothingOpen DEF WaitOK
<1>3. ASSUME currentJourney # Nil PROVE Agrees(currentJourney)
  <2>1. submitting = 0
    BY <1>3 DEF WaitOK, CallsObserved
  <2> QED
    BY <1>1, <1>2, <1>3, <2>1 DEF WaitOK, JourneysKnown
<1>4. ASSUME finishedJourney # Nil, submitting = 0 PROVE Agrees(finishedJourney)
  BY <1>1, <1>2, <1>4 DEF WaitOK, JourneysKnown
<1> QED
  BY <1>3, <1>4 DEF JourneyIsReport, Nil

\* The journey the page of a user who waits shows and its report agree.
THEOREM PatientJourneyIsReport == WaitingUser => (Spec => []JourneyIsReport)
<1> SUFFICES ASSUME WaitingUser PROVE Spec => []JourneyIsReport
  OBVIOUS
<1>1. PatientInv /\ [Next]_vars => PatientInv'
  BY PatientStep
<1> QED
  BY PatientInit, <1>1, KnownIsReport, PTL DEF Spec

\* The page lets go of a journey at no other time than when its submission was accepted.
LEMMA LetsGoGranted ==
    ASSUME WaitingUser, PatientInv, [Next]_vars, LetsGo
    PROVE  Granted
<1> USE DEF PatientInv
<1>1. submitting' # submitting /\ finishedJourney # Nil /\ finishedJourney' = Nil
  BY DEF LetsGo, Nil
<1>2. PageStep
  BY <1>1 DEF Next, Server, ServeSync, ServeSubmit, Refuse, Review, page, vars
<1>3. ASSUME NEW n \in 1..MaxSubmits, Client!SubmitSucceeded(n) PROVE Granted
  BY <1>3 DEF Client!SubmitSucceeded, Granted
<1>4. ASSUME NEW n \in 1..MaxSubmits, Client!SubmitFailed(n) PROVE FALSE
  BY <1>1, <1>4 DEF Client!SubmitFailed, Client!journeys
<1>5. CASE Client!HandleTypeSelect \/ Client!HandleSubmitSummary
  BY <1>1, <1>5 DEF Client!HandleTypeSelect, Client!HandleSubmitSummary, Client!journeys
<1>6. ASSUME NEW l \in Local, Client!SyncAnswered(l) \/ Client!SyncFailed(l) PROVE FALSE
  BY <1>1, <1>6 DEF Client!SyncAnswered, Client!SyncFailed
<1>7. ASSUME NEW l \in Local, NEW d \in SUBSET Local, Client!UpdateObject(l, d) PROVE FALSE
  BY <1>1, <1>7 DEF Client!UpdateObject, Client!calls
<1>8. CASE HandedOn \/ UNCHANGED Calls
  BY <1>1, <1>8 DEF HandedOn, Calls
<1>9. CallsObserved
  BY DEF WaitOK
<1> QED
  BY <1>2, <1>3, <1>4, <1>5, <1>6, <1>7, <1>8, <1>9, PageSteps

\* What a user who waits deleted is gone when the page lets go of the journey.
THEOREM PatientDeletedGone == WaitingUser => (Spec => DeletedGone)
<1> SUFFICES ASSUME WaitingUser PROVE Spec => DeletedGone
  OBVIOUS
<1>1. PatientInv /\ [Next]_vars => PatientInv'
  BY PatientStep
<1>2. PatientInv /\ [Next]_vars
        => [LetsGo => \A l \in finishedJourney.objects \cap deleted :
                          SubmittedRowsOf(l) = {}]_vars
  <2> SUFFICES ASSUME PatientInv, [Next]_vars, LetsGo,
                      NEW l \in finishedJourney.objects \cap deleted
               PROVE  SubmittedRowsOf(l) = {}
    OBVIOUS
  <2>1. RowsOf(l) = {}
    BY LetsGoGranted DEF PatientInv, WaitOK, GrantedOK
  <2> QED
    BY <2>1 DEF SubmittedRowsOf
<1> QED
  BY PatientInit, <1>1, <1>2, PTL DEF Spec, DeletedGone

\* A submission that was accepted and is not answered yet: the report was handed in and
\* has every row of the journey's objects.
ReportGranted ==
    Granted => /\ finishedJourney.id \in Report /\ report[finishedJourney.id] \in HandedIn
               /\ \A l \in finishedJourney.objects : \A o \in RowsOf(l) :
                      object[o].report = finishedJourney.id

\* A submission that is served makes it so.
LEMMA AcceptedIsGranted ==
    ASSUME TypeOK, WaitOK, NEW n \in 1..MaxSubmits, ServeSubmit(n)
    PROVE  ReportGranted'
<1> USE DEF TypeOK, Client!TypeOK
<1>1. /\ submit[n].state = "asked" /\ finishedJourney' = finishedJourney
      /\ submit[n].journey = finishedJourney.id /\ finishedJourney.id \in Report
      /\ report' = [report EXCEPT ![finishedJourney.id] = "submitted"]
  BY ServedIsFinished DEF ServeSubmit, page
<1> DEFINE rp == finishedJourney.id
           entries == submit[n].entries
           removed == {entries.ids[l] : l \in {k \in entries.dropped : Found(k, rp, entries)}}
           new == Unknown(rp, entries)
<1>2. PICK key \in [new -> {o \in Object : object[o] = NoRow}] :
         /\ object' = [o \in Object |->
                IF o \in removed THEN [object[o] EXCEPT !.status = "deleted"]
                ELSE IF \E l \in new : key[l] = o
                     THEN [report |-> rp, status |-> "draft"]
                     ELSE object[o]]
         /\ origin' = [o \in Object |->
                IF \E l \in new : key[l] = o THEN CHOOSE l \in new : key[l] = o
                ELSE origin[o]]
  BY <1>1 DEF ServeSubmit
<1> HIDE DEF removed, new, entries
<1>3. ASSUME NEW l \in finishedJourney.objects, NEW o \in Object, Exists(o)', origin'[o] = l
      PROVE  object'[o].report = rp
  <2>1. CASE o \notin removed /\ \E k \in new : key[k] = o
    BY <1>2, <2>1
  <2>2. CASE o \notin removed /\ ~ \E k \in new : key[k] = o
    <3>1. object'[o] = object[o] /\ origin[o] = l /\ Exists(o)
      BY <1>2, <1>3, <2>2 DEF Exists
    <3> QED
      BY <1>1, <3>1, FinishedIsKnown
  <2>3. CASE o \in removed
    BY <1>2, <1>3, <2>3 DEF Exists, ObjectRow, ObjectStatus
  <2> QED
    BY <2>1, <2>2, <2>3
<1> QED
  BY <1>1, <1>3 DEF ReportGranted, RowsOf, HandedIn

\* The tables and the finished journey stay, and no other submission is accepted.
LEMMA GrantedStays ==
    ASSUME ReportGranted, UNCHANGED <<finishedJourney, report, object, origin>>,
           Granted' => Granted
    PROVE  ReportGranted'
  BY DEF ReportGranted, RowsOf, Exists

\* Each step keeps it so until the page is told.
LEMMA ReportGrantedStep ==
    ASSUME WaitingUser, PatientInv, ReportGranted, [Next]_vars
    PROVE  ReportGranted'
<1> USE DEF PatientInv
<1>1. submitting = 0 => ~ Granted
  BY NothingOpen DEF WaitOK
<1>2. CallsObserved
  BY DEF WaitOK
<1>3. ASSUME PageStep PROVE ReportGranted'
  <2>1. UNCHANGED <<report, object, origin>>
    BY <1>3 DEF PageStep
  <2>2. ASSUME UNCHANGED <<finishedJourney, submit>> PROVE ReportGranted'
    BY <2>1, <2>2, GrantedStays DEF Granted
  <2>3. CASE HandedOn
    BY <1>1, <2>3 DEF HandedOn, NoCalls, Calls, ReportGranted, Granted
  <2>4. CASE Client!HandleTypeSelect
    BY <2>2, <2>4 DEF Client!HandleTypeSelect
  <2>5. CASE Client!HandleSubmitSummary
    <3>1. PICK n \in 1..MaxSubmits :
             submit' = [submit EXCEPT ![n] = [state |-> "asked",
                                              journey |-> finishedJourney.id,
                                              entries |-> Client!EntriesOf(finishedJourney)]]
      BY <2>5 DEF Client!HandleSubmitSummary
    <3>2. Granted' => Granted
      BY <3>1 DEF Granted, TypeOK, Client!TypeOK
    <3> QED
      BY <2>1, <2>5, <3>2, GrantedStays DEF Client!HandleSubmitSummary, Client!journeys
  <2>6. ASSUME NEW l \in Local, NEW d \in SUBSET Local, Client!UpdateObject(l, d)
        PROVE  ReportGranted'
    BY <2>2, <2>6 DEF Client!UpdateObject, Client!journeys, Client!calls
  <2>7. ASSUME NEW l \in Local, Client!SyncAnswered(l) \/ Client!SyncFailed(l)
        PROVE  ReportGranted'
    BY <2>2, <2>7 DEF Client!SyncAnswered, Client!SyncFailed, Client!journeys
  <2>8. ASSUME NEW n \in 1..MaxSubmits, Client!SubmitSucceeded(n) \/ Client!SubmitFailed(n)
        PROVE  ReportGranted'
    <3>1. /\ submitting = n /\ submit[n].state \in {"accepted", "refused"}
          /\ submit' = [submit EXCEPT ![n] = Client!SubmitIs("over")]
      BY <2>8 DEF Client!SubmitSucceeded, Client!SubmitFailed, WaitingUser
    <3>2. \A m \in (1..MaxSubmits) \ {n} : submit[m].state # "accepted"
      BY <1>2, <3>1 DEF CallsObserved, SubmitOpen
    <3>3. ~ Granted'
      BY <3>1, <3>2 DEF Granted, Client!SubmitIs, TypeOK, Client!TypeOK
    <3> QED
      BY <3>3 DEF ReportGranted
  <2>9. CASE UNCHANGED <<currentJourney, finishedJourney, Knows, Calls, report, object, origin>>
    BY <2>2, <2>9 DEF Calls
  <2> QED
    BY <1>2, <1>3, <2>3, <2>4, <2>5, <2>6, <2>7, <2>8, <2>9, PageSteps
<1>4. ASSUME NEW l \in Local, ServeSync(l) PROVE ReportGranted'
  <2>1. submitting = 0 /\ UNCHANGED submit
    BY <1>2, <1>4, PageConstants DEF ServeSync, CallsObserved, SyncOpen
  <2> QED
    BY <1>1, <2>1 DEF ReportGranted, Granted
<1>5. ASSUME Refuse PROVE ReportGranted'
  <2>1. UNCHANGED <<finishedJourney, report, object, origin>>
    BY <1>5 DEF Refuse, page
  <2>2. Granted' => Granted
    <3>1. UNCHANGED submit \/ \E n \in 1..MaxSubmits :
             submit' = [submit EXCEPT ![n] = Client!SubmitIs("refused")]
      BY <1>5 DEF Refuse
    <3>2. Client!SubmitIs("refused").state = "refused"
      BY DEF Client!SubmitIs
    <3> QED
      BY <3>1, <3>2 DEF Granted, TypeOK, Client!TypeOK
  <2> QED
    BY <2>1, <2>2, GrantedStays
<1>6. ASSUME Review PROVE ReportGranted'
  <2>1. /\ UNCHANGED <<page, submit, origin>>
        /\ \A o \in Object : object'[o].report = object[o].report /\ (Exists(o)' <=> Exists(o))
        /\ \A rp \in Report : report'[rp] = report[rp] \/ report'[rp] \in Decided
    BY <1>6, ReviewEffect
  <2>2. finishedJourney' = finishedJourney /\ Granted' = Granted
    BY <2>1 DEF page, Granted
  <2>3. \A l \in Local : RowsOf(l)' = RowsOf(l)
    BY <2>1 DEF RowsOf
  <2>4. finishedJourney.objects \subseteq Local
    BY DEF TypeOK, Client!TypeOK, Client!Journey, Client!Null
  <2> QED
    BY <2>1, <2>2, <2>3, <2>4 DEF ReportGranted, HandedIn, RowsOf
<1>7. CASE UNCHANGED vars
  BY <1>7, GrantedStays DEF vars, page, Granted
<1>8. ASSUME NEW n \in 1..MaxSubmits, ServeSubmit(n) PROVE ReportGranted'
  BY <1>8, AcceptedIsGranted
<1> QED
  BY <1>3, <1>4, <1>5, <1>6, <1>7, <1>8 DEF Next, Server

\* What the page lets go of is the report, object by object.
LEMMA LetsGoOfReport ==
    ASSUME WaitingUser, PatientInv, ReportGranted, DeliveredInv, [Next]_vars, LetsGo
    PROVE  LET rp == finishedJourney.id
               kept == finishedJourney.objects \ deleted
           IN  /\ rp \in Report /\ report[rp] \in HandedIn
               /\ \A l \in kept : \E o \in ObjectsOf(rp) : RowsOf(l) = {o}
               /\ \A o \in ObjectsOf(rp) : origin[o] \in kept
<1> DEFINE rp == finishedJourney.id
           kept == finishedJourney.objects \ deleted
<1> USE DEF PatientInv
<1>1. Granted
  BY LetsGoGranted
<1>2. finishedJourney # Nil /\ finishedJourney.objects \subseteq Local
  BY DEF LetsGo, Nil, TypeOK, Client!TypeOK, Client!Journey, Client!Null
<1>3. rp \in Report /\ report[rp] \in HandedIn
  BY <1>1 DEF ReportGranted
<1>4. ASSUME NEW l \in kept PROVE \E o \in ObjectsOf(rp) : RowsOf(l) = {o}
  <2>1. SummaryLeftAlone
    BY DEF WaitingUser, SummaryLeftAlone
  <2>2. PICK o \in RowsOf(l) : TRUE
    BY <2>1, LetsGoDelivered DEF SubmittedRowsOf
  <2>3. \A p \in RowsOf(l) : p = o
    BY <1>2, <2>2 DEF WaitOK, StoredOnce
  <2>4. o \in ObjectsOf(rp)
    BY <1>1, <2>2 DEF ReportGranted, RowsOf, ObjectsOf
  <2> QED
    BY <2>2, <2>3, <2>4
<1>5. ASSUME NEW o \in ObjectsOf(rp) PROVE origin[o] \in kept
  <2>1. o \in Object /\ Exists(o) /\ origin[o] \in finishedJourney.objects
    BY <1>2 DEF WaitOK, JourneysKnown, RowsAreOf, ObjectsOf
  <2>2. origin[o] \notin deleted
    BY <1>1, <2>1 DEF WaitOK, GrantedOK, RowsOf
  <2> QED
    BY <2>1, <2>2
<1> QED
  BY <1>3, <1>4, <1>5

\* What a user who waits submits is the journey, no more and no less: its report is handed
\* in with exactly one row of each object that was kept and no other row, whether the row
\* was made when the object was placed or when the journey was submitted.
THEOREM PatientSubmittedIsJourney == WaitingUser => (Spec => SubmittedIsJourney)
<1> SUFFICES ASSUME WaitingUser PROVE Spec => SubmittedIsJourney
  OBVIOUS
<1> DEFINE Whole == LetsGo =>
               LET rp == finishedJourney.id
                   kept == finishedJourney.objects \ deleted
               IN  /\ rp \in Report /\ report[rp] \in HandedIn
                   /\ \A l \in kept : \E o \in ObjectsOf(rp) : RowsOf(l) = {o}
                   /\ \A o \in ObjectsOf(rp) : origin[o] \in kept
<1>1. Init => PatientInv /\ ReportGranted /\ DeliveredInv
  <2>1. Init => ~ Granted
    BY DEF Init, Client!Init, Granted, Client!SubmitIs
  <2> QED
    BY <2>1, PatientInit, DeliveredBegin DEF ReportGranted
<1>2. PatientInv /\ ReportGranted /\ DeliveredInv /\ [Next]_vars
        => PatientInv' /\ ReportGranted' /\ DeliveredInv'
  <2>1. SummaryLeftAlone
    BY DEF WaitingUser, SummaryLeftAlone
  <2> QED
    BY <2>1, PatientStep, ReportGrantedStep, DeliveredStep
<1>3. PatientInv /\ ReportGranted /\ DeliveredInv /\ [Next]_vars => [Whole]_vars
  BY LetsGoOfReport
<1> QED
  BY <1>1, <1>2, <1>3, PTL DEF Spec, SubmittedIsJourney, Whole
=============================================================================
