\* One request at a time, with failures and no retries.
SPECIFICATION Spec
CONSTANTS
    Report = {j1, j2}
    Object = {o1, o2, o3}
    Request = {r1}
    c1 = c1
    c2 = c2
    Coord = {c1, c2}
    PointLists <- OneList
    MaxEntries = 2
    MaxRetry = 0
    ConflictDetection = FALSE
    ReviewOf <- AllReports
SYMMETRY Symmetric
INVARIANTS DecisionSound NoEmptyDraft
PROPERTIES DecisionComplete ObjectsJoinDrafts EntriesOnce AtomicSpec
CHECK_DEADLOCK TRUE
