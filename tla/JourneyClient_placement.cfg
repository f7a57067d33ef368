\* Placing objects with an arbitrary server.
SPECIFICATION Spec
CONSTANTS
    Local = {l1, l2}
    Report = {j1}
    Object = {o1}
    Modes <- AllModes
    MaxPoints = 4
    MaxSubmits = 1
    Hasty <- Haste
    LostCalls = TRUE
SYMMETRY Symmetric
INVARIANTS TypeOK PlacementOK OneJourney
CHECK_DEADLOCK TRUE
