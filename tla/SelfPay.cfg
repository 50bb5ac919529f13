SPECIFICATION Spec
CONSTANTS
    k1 = k1
    k2 = k2
    Clients = {k1, k2}
    Xacts = {1, 2}
    Circs = {}
    Opening <- MCOpening
    Overlap = FALSE
    MaxBilled = 2
    MaxVersion = 3
    MaxFaults = 1
    MaxDrawn = 1
    MaxLogins = 3
    ReceiptFails = FALSE
    NoList = NoList
SYMMETRY KioskSymmetry
PROPERTIES PaysWhatIsOwed
CHECK_DEADLOCK FALSE
