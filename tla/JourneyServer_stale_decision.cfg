\* An administrator decides a report while another changes a verdict.
SPECIFICATION Spec
CONSTANTS
    Report = {j1}
    Object = {o1, o2}
    Request = {r1, r2}
    c1 = c1
    c2 = c2
    Coord = {c1, c2}
    PointLists <- OneList
    MaxEntries = 1
    MaxRetry = 0
    ConflictDetection = TRUE
    ReviewOf <- SubmittedReports
SYMMETRY Symmetric
INVARIANTS DecidedByVerdicts
CHECK_DEADLOCK TRUE
