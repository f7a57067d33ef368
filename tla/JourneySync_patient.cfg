\* A user who waits for the answers, and none is lost; submitted reports are reviewed.
SPECIFICATION Spec
CONSTANTS
    Local = {l1, l2}
    Report = {j1, j2}
    Object = {o1, o2, o3}
    Modes <- PointMode
    MaxPoints = 1
    MaxSubmits = 2
    Hasty <- Patient
    LostCalls = FALSE
    ReviewOf <- SubmittedReports
SYMMETRY Symmetric
INVARIANTS TypeOK JourneyIsReport StoredOnce StatusIsVerdicts
PROPERTIES DeletedGone SubmittedIsJourney
CHECK_DEADLOCK TRUE
