\* Objects with several points, retried; fairness.
SPECIFICATION FairSpec
CONSTANTS
    Report = {j1}
    Object = {o1, o2}
    Request = {r1}
    c1 = c1
    c2 = c2
    Coord = {c1, c2}
    PointLists <- ThreeLists
    MaxEntries = 2
    MaxRetry = 1
    ConflictDetection = TRUE
    ReviewOf <- NoReports
INVARIANTS PointsWellFormed
PROPERTIES RequestsEnd
CHECK_DEADLOCK TRUE
