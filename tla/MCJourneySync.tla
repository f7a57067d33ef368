---------------------------- MODULE MCJourneySync ----------------------------
(***************************************************************************)
(* JourneySync for TLC: what the user does without waiting for an answer.  *)
(***************************************************************************)
EXTENDS JourneySync, TLC

PointMode == {"point"}

\* A patient user, and users who are hasty in one thing or in many.
Patient == {}
OutsideSummary == {"place", "end", "restart", "reload"}
QuickPlacing == {"place"}
QuickClosing == {"close", "place", "end"}

NoReports == {}
SubmittedReports == ReportStatus \ {"draft"}

Symmetric == Permutations(Local) \cup Permutations(Report) \cup Permutations(Object)
=============================================================================
