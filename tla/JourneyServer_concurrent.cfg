\* Two requests at a time.
SPECIFICATION Spec
CONSTANTS
    Report = {j1}
    Object = {o1, o2}
    Request = {r1, r2}
    c1 = c1
    c2 = c2
    Coord = {c1, c2}
    PointLists <- OneList
    MaxEntries = 1
    MaxRetry = 1
    ConflictDetection = TRUE
    ReviewOf <- AllReports
SYMMETRY Symmetric
INVARIANTS TypeOK Consistent
PROPERTIES LifecycleOK SubmitOnce VerdictSeen OptimisticSpec
CHECK_DEADLOCK TRUE
