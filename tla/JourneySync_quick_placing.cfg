\* A second object is placed before the first one is answered.
SPECIFICATION Spec
CONSTANTS
    Local = {l1, l2}
    Report = {j1, j2}
    Object = {o1, o2, o3}
    Modes <- PointMode
    MaxPoints = 1
    MaxSubmits = 1
    Hasty <- QuickPlacing
    LostCalls = FALSE
    ReviewOf <- NoReports
SYMMETRY Symmetric
INVARIANTS JourneyIsReport
CHECK_DEADLOCK TRUE
