SPECIFICATION LiveSpec
CONSTANTS
    c1 = c1
    h1 = h1
    u1 = u1
    u2 = u2
    l1 = l1
    l2 = l2
    Copies = {c1}
    Holds = {h1}
    Users = {u1, u2}
    Libs = {l1, l2}
    NoCopy = NoCopy
    NoHold = NoHold
    NoLib = NoLib
    NoLoan = NoLoan
    NoTransit = NoTransit
    Home <- MCHome
    Owner <- MCOwner
    MaxTransits = 2
    MaxCrashes = 1
    Requests = {"renew", "lost", "claims", "shelve", "reset", "abort", "retarget"}
    Overlapping = FALSE
    Here = l1
    Patron = u1
    Overrides = {"COPY_NOT_AVAILABLE", "ITEM_ON_HOLDS_SHELF", "COPY_IN_TRANSIT", "COPY_STATUS_LOST", "MAX_RENEWALS_REACHED"}
    Blocks = {"missing"}
    Permitted = FALSE
    Beside = TRUE
    MaxActs = 1
PROPERTIES LendsAsConfigured ScanEnds
