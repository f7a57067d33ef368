---------------------------- MODULE JourneyTables ----------------------------
(***************************************************************************)
(* The tables a journey lives in, and the questions asked of them: the     *)
(* report of the journey and the hindrance objects placed on it.           *)
(***************************************************************************)
EXTENDS Naturals, Sequences, FiniteSets

CONSTANTS
    Report,     \* keys a row of Reports can get (Guid.NewGuid)
    Object      \* keys a row of HindranceObjects can get

VARIABLES
    report,     \* Reports: the ReviewStatus of each row
    object      \* HindranceObjects: report and ReviewStatus of each row

NoReport == "no report"    \* journeyId null

ReportStatus == {"draft", "submitted", "resolved", "closed"}
ObjectStatus == {"draft", "resolved", "closed"}
Decided == {"resolved", "closed"}

\* "none": no row; "deleted": the row was removed (a Guid is never reused).
ObjectRow == [report : Report \cup {NoReport},
              status : ObjectStatus \cup {"none", "deleted"}]
NoRow == [report |-> NoReport, status |-> "none"]

Exists(o) == object[o].status \in ObjectStatus
ObjectsOf(rp) == {o \in Object : Exists(o) /\ object[o].report = rp}
StatusesIn(rp) == [o \in Object |-> IF o \in ObjectsOf(rp) THEN object[o].status
                                                           ELSE "none"]

\* Faulty: one rejected object closes the report.
Outcome_OneRejected(statuses, current) ==
    IF \E o \in Object : statuses[o] = "closed" THEN "closed"
    ELSE IF \A o \in Object : statuses[o] # "draft" THEN "resolved" ELSE current

\* Faulty: a report is resolved only when every object was accepted.
Outcome_AllAccepted(statuses, current) ==
    LET reportVerify == {o \in Object : statuses[o] # "none"}
    IN  IF \A o \in reportVerify : statuses[o] = "closed" THEN "closed"
        ELSE IF \A o \in reportVerify : statuses[o] = "resolved" THEN "resolved"
        ELSE current

\* The status ObjectReview gives a report whose objects have these statuses;
\* it keeps the one it has while an object is not reviewed.
Outcome(statuses, current) ==
    LET reportVerify == {o \in Object : statuses[o] # "none"}
        notReviewed == {o \in reportVerify : statuses[o] = "draft"}
        rejectedObjects == {o \in reportVerify : statuses[o] = "closed"}
    IN  IF rejectedObjects = reportVerify THEN "closed"
        ELSE IF notReviewed = {} THEN "resolved"
        ELSE current
=============================================================================
