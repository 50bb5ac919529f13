SPECIFICATION Spec
CONSTANTS
    w1 = w1
    w2 = w2
    r1 = r1
    r2 = r2
    r3 = r3
    i1 = i1
    c1 = c1
    c2 = c2
    Stations = {w1, w2}
    Rows = {r1, r2}
    Sessions = {"s1"}
    Runs = {c1, c2}
    Items = {i1}
    StationOf <- MCStationOf
    FormOf <- MCFormOf
    ItemOf <- MCItemOf
    TimeOf <- MCTimeOf
    SkipForms = {"checkout", "renew", "checkin"}
    Now = 3
    NoRequest = NoRequest
    Exporting = FALSE
    Beside = FALSE
    PrintFails = {}
    MaxCopies = 1
    Careful = TRUE
    MaxFaults = 1
SYMMETRY RunSymmetry
INVARIANTS TypeOK EndedIsRun SkipsWholeItem PendingNotSent CompleteIsUploaded
PROPERTIES SkipsForOthers ImplementsDelivery
CHECK_DEADLOCK FALSE
