--------------------------- MODULE MCJourneyServer ---------------------------
(***************************************************************************)
(* JourneyServer for TLC: the lists of points, the reports under review    *)
(* and the symmetry of the keys.                                           *)
(***************************************************************************)
EXTENDS JourneyRequirements, TLC

CONSTANTS c1, c2

\* Objects without points, and with lists that share a position.
OneList == {<<c1>>}
ThreeLists == {<<>>, <<c1>>, <<c1, c2>>}

NoReports == {}
AllReports == ReportStatus
SubmittedReports == ReportStatus \ {"draft"}

Symmetric == Permutations(Report) \cup Permutations(Object) \cup Permutations(Request)
=============================================================================
