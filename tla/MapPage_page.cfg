\* The page while the connection comes and goes.
SPECIFICATION FairSpec
CONSTANTS
    Local = {l1}
    Report = {j1}
    Object = {o1}
    Modes = {"point", "area"}
    MaxPoints = 3
    MaxSubmits = 2
    Hasty = {"close"}
    LostCalls = FALSE
INVARIANTS TypeOK TypeFits PlacedIsDrawn SummaryIsOfJourney
PROPERTIES SubmitTitled SummaryEnds SelectorCloses
CHECK_DEADLOCK TRUE
