-------------------------- MODULE OptimisticJourney --------------------------
(***************************************************************************)
(* What the three operations still promise when any number of them run at  *)
(* the same time and are retried, if the database refuses a write to a row *)
(* that changed since it was read.  Only a Finalise writes rows it has     *)
(* read in its transaction, so only a Finalise is what AtomicJourney says; *)
(* a SyncObject and an ObjectReview act on a report as it may have been.   *)
(***************************************************************************)
EXTENDS AtomicJourney

Unused == {o \in Object : object[o] = NoRow}

\* SyncObject: the objects its attempts made join a report that was a draft
\* once, or is inserted now, together with those of failed attempts.
SyncLate ==
    \E rp \in Report, drafts \in SUBSET {x \in Report : report[x] = "none"},
       added \in (SUBSET Unused) \ {{}} :
        /\ rp \in drafts \/ report[rp] # "none"
        /\ report' = [x \in Report |-> IF x \in drafts THEN "draft" ELSE report[x]]
        /\ object' = [o \in Object |-> IF o \in added
                                       THEN [report |-> rp, status |-> "draft"]
                                       ELSE object[o]]

\* ObjectReview: the verdict is given, unless the object had it when it was read
\* (and has the same or the opposite one by now); the report is left as it is or
\* decided by what its objects may have been, but by an acceptance never closed.
ReviewLate ==
    \E o \in Object, verdict \in Decided :
        LET rp == object[o].report
            decisions == IF verdict = "closed" THEN Decided ELSE {"resolved"}
        IN  /\ Exists(o)
            /\ \/ object' = [object EXCEPT ![o].status = verdict]
               \/ object[o].status \in Decided /\ object' = object
            /\ \E decision \in decisions \cup {report[rp]} :
                   report' = [report EXCEPT ![rp] = decision]

OptimisticNext == SyncLate \/ Finalise \/ ReviewLate
OptimisticSpec == Init /\ [][OptimisticNext]_<<report, object>>
=============================================================================
