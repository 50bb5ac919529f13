SPECIFICATION StationSpec
CONSTANTS
    w1 = w1
    w2 = w2
    r1 = r1
    r2 = r2
    r3 = r3
    Stations = {w1, w2}
    Rows = {r1, r2, r3}
    StationOf <- MCStationOf
    FormOf <- MCFormOf
    ItemOf <- MCItemOf
    Exporting = TRUE
    PrintFails = {"checkin"}
    Beside = FALSE
    MaxCopies = 1
INVARIANTS LockedWhileUnsaved SavedIsKept
PROPERTIES CloseLosesNothing
CHECK_DEADLOCK FALSE
