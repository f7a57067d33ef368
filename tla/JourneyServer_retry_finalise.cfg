\* A Finalise whose second query fails once and is run again.
SPECIFICATION Spec
CONSTANTS
    Report = {j1, j2}
    Object = {o1, o2, o3}
    Request = {r1}
    c1 = c1
    c2 = c2
    Coord = {c1, c2}
    PointLists <- OneList
    MaxEntries = 2
    MaxRetry = 1
    ConflictDetection = TRUE
    ReviewOf <- AllReports
SYMMETRY Symmetric
PROPERTIES EntriesOnce
CHECK_DEADLOCK TRUE
