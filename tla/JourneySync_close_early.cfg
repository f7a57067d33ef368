\* The summary is closed while it is submitted.
SPECIFICATION Spec
CONSTANTS
    Local = {l1, l2}
    Report = {j1, j2}
    Object = {o1, o2, o3}
    Modes <- PointMode
    MaxPoints = 1
    MaxSubmits = 1
    Hasty <- QuickClosing
    LostCalls = FALSE
    ReviewOf <- NoReports
SYMMETRY Symmetric
PROPERTIES Delivered
CHECK_DEADLOCK TRUE
