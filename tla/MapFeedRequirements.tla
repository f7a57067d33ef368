------------------------- MODULE MapFeedRequirements -------------------------
(***************************************************************************)
(* What the map feed must do: its lists miss nothing, except rows that    *)
(* were written at a bad moment.  Nothing in the code prevents such        *)
(* moments, so a history variable says exactly which rows they concern:    *)
(* five windows, each at the step that opens it.                           *)
(***************************************************************************)
EXTENDS MapFeed

VARIABLE atRisk     \* when the rows were written that a later poll may not ask for

Marked(times) == atRisk' = atRisk \cup (times \ {0})

-----------------------------------------------------------------------------
(* The windows. *)

\* The rows of transactions that are open when the server reads.
Uncommitted == {unsaved[o].time : o \in {p \in Object : unsaved[p] # NoRow}}

\* A row is written while an answer without it is on its way.
AnswerOut == \E q \in Request : request[q].state = "served"

\* A row is written at a time that the page's clock has passed already.
ClockAhead == clock + 1 < lastFetch \/ \E q \in Request : clock + 1 < request[q].since

\* Another list's answer sets the time: what the current list has not got is not
\* asked for again.
NotOnList ==
    IF list[key] = NoList THEN {}
    ELSE {row[o].time : o \in {p \in Object : row[p].time # list[key][p]}}

\* The first request of a list does not ask for all.
NotAskedFor(k) ==
    IF list[k] # NoList THEN {}
    ELSE {row[o].time : o \in {p \in Object : row[p].time < lastFetch}}

-----------------------------------------------------------------------------
HistoryInit == Init /\ atRisk = {}

HistoryNext ==
    \/ \E o \in Object :
           \/ SaveChanges(o) /\ Marked(IF AnswerOut \/ ClockAhead THEN {clock + 1} ELSE {})
           \/ (Commit(o) \/ RollbackOrDelete(o)) /\ Marked({})
    \/ Poll /\ Marked(NotAskedFor(key))
    \/ (Invalidate \/ SetRole \/ RoleStep) /\ Marked({})
    \/ \E k \in Key : (SetKey(k) \/ Forget(k)) /\ Marked({})
    \/ \E q \in Request :
           \/ GetObjects(q) /\ Marked(Uncommitted)
           \/ Arrive(q) /\ Marked(IF request[q].key = key THEN {} ELSE NotOnList)
           \/ Fails(q) /\ Marked({})
           \/ Retry(q) /\ Marked(NotAskedFor(request[q].key))

\* A history variable restricts nothing: see FeedHistory in MapFeedProofs.
HistorySpec == HistoryInit /\ [][HistoryNext]_<<vars, atRisk>>
FairHistorySpec == HistorySpec /\ Fairness

-----------------------------------------------------------------------------
(* Properties. *)

\* The list for k has the rows written before a time, those at risk excepted.
Covered(k, time) ==
    \A o \in Object :
        Visible(o) /\ ReportOf[o] # k /\ row[o].time < time
            => \/ row[o].time \in atRisk
               \/ list[k] # NoList /\ list[k][o] = row[o].time

\* Asking only for what was written since the last answer misses no row but those of
\* the windows: all else that the user may see and that is older is on the list as
\* it is now, although requests fail, are cancelled and overtaken, answers come for
\* the list of a former journey, and the journey and the role change.
NothingMissed == Open /\ list[key] # NoList => Covered(key, lastFetch)

\* What the user may see of other journeys.
Seen(k) == [o \in Object |-> IF Visible(o) /\ ReportOf[o] # k THEN row[o].time ELSE 0]

\* The map catches up with the server, rows at risk excepted, and the journey's own
\* objects, which the page draws in blue, leave the green ones, although the list of
\* the former journey had them ("ekskluderer objekter fra gjeldende rapport").
MapCatchesUp == []<>(\A o \in Object : /\ Seen(key)[o] \in {0, screen[o]} \cup atRisk
                                       /\ ReportOf[o] = key => screen[o] = 0)

\* Each list is as good as one that is fetched anew each time, for rows not at risk.
Copies == INSTANCE MapCopy WITH
    Journey <- Key, NoCopy <- NoList,
    Own <- [k \in Key |-> {o \in Object : ReportOf[o] = k}],
    seen <- [k \in Key |-> Seen(k)], copy <- list, missed <- atRisk
ListsAreCopies == Copies!Spec
=============================================================================
