\* A user who waits only in the summary, calls that are lost.
SPECIFICATION Spec
CONSTANTS
    Local = {l1, l2}
    Report = {j1, j2}
    Object = {o1, o2, o3}
    Modes <- PointMode
    MaxPoints = 1
    MaxSubmits = 2
    Hasty <- OutsideSummary
    LostCalls = TRUE
    ReviewOf <- NoReports
SYMMETRY Symmetric
INVARIANTS RightIds
PROPERTIES Delivered
CHECK_DEADLOCK TRUE
