---------------------------- MODULE AtomicJourney ----------------------------
(***************************************************************************)
(* What the three operations promise when each of them takes effect at     *)
(* once, or not at all: an object is synced into a draft report, a draft   *)
(* is finalised, an object gets its verdict and the report its decision.   *)
(* JourneyServer carries them out in several steps, with errors between.   *)
(***************************************************************************)
EXTENDS JourneyTables

Init ==
    /\ report = [rp \in Report |-> "none"]
    /\ object = [o \in Object |-> NoRow]

\* SyncObject: a new object in a draft, which may be a new draft.
Sync ==
    \E rp \in Report, o \in Object :
        /\ report[rp] \in {"none", "draft"} /\ object[o] = NoRow
        /\ report' = [report EXCEPT ![rp] = "draft"]
        /\ object' = [object EXCEPT ![o] = [report |-> rp, status |-> "draft"]]

\* FinalizeJourney: a draft is submitted, some of its objects are removed and
\* those the server never heard of are added.
Finalise ==
    \E rp \in Report :
        /\ report[rp] = "draft"
        /\ report' = [report EXCEPT ![rp] = "submitted"]
        /\ \E removed \in SUBSET ObjectsOf(rp),
              added \in SUBSET {o \in Object : object[o] = NoRow} :
              object' = [o \in Object |->
                  IF o \in removed THEN [object[o] EXCEPT !.status = "deleted"]
                  ELSE IF o \in added THEN [report |-> rp, status |-> "draft"]
                  ELSE object[o]]

\* ObjectReview: a verdict on one object; the report is decided by the verdicts
\* its objects have with this one.
Review ==
    \E o \in Object, verdict \in Decided :
        LET rp == object[o].report IN
        /\ Exists(o)
        /\ object' = [object EXCEPT ![o].status = verdict]
        /\ report' = [report EXCEPT ![rp] =
                         Outcome([StatusesIn(rp) EXCEPT ![o] = verdict], @)]

Next == Sync \/ Finalise \/ Review
Spec == Init /\ [][Next]_<<report, object>>
=============================================================================
