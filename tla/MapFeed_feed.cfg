\* Nothing is ruled out; the page's clock may be one write ahead.
SPECIFICATION FairHistorySpec
CONSTANTS
    o1 = o1
    o2 = o2
    own = own
    other = other
    Object = {o1, o2}
    Report = {own, other}
    ReportOf <- OneOfEach
    Reporter <- ByOther
    Stored <- Reviewed
    Request = {q1, q2}
    MaxTime = 2
    MaxChanges = 2
    NewRole = {"Pilot", "Kartverket"}
    Ahead = 1
    Behind = 0
INVARIANTS TypeOK  RolesAgree
  
CHECK_DEADLOCK TRUE
