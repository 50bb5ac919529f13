SPECIFICATION PageSpec
CONSTANTS
    c1 = c1
    h1 = h1
    h2 = h2
    u1 = u1
    u2 = u2
    l1 = l1
    l2 = l2
    Copies = {c1}
    Holds = {h1}
    Users = {u1, u2}
    Libs = {l1, l2}
    NoCopy = NoCopy
    NoHold = NoHold
    NoLib = NoLib
    NoLoan = NoLoan
    NoTransit = NoTransit
    NoRow = NoRow
    Home <- MCHome
    Owner <- MCOwner
    MaxTransits = 2
    MaxCrashes = 0
    Requests = {}
    Overlapping = TRUE
    Holder = u1
    Actions = {"freeze"}
PROPERTIES SuspendsNoCaptured
