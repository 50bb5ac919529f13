SPECIFICATION Spec
CONSTANTS
    w1 = w1
    Owed1 = 0
    Owed2 = 1
    Clients = {w1}
    Xacts = {1, 2}
    Circs <- MCCircs
    Opening <- MCOpening
    Overlap = FALSE
    MaxBilled = 1
    MaxVersion = 2
    MaxFaults = 1
    Types = {"cash", "credit", "card", "approved"}
    Amounts = {2}
    Rereads = FALSE
    Voids = {2}
    CardChange = FALSE
    Patient = TRUE
    InOrder = TRUE
    MaxRows = 1
    MaxLost = 0
INVARIANTS TypeOK MoneyBalances ClosedIffSettled RecordedOnce
PROPERTIES PaysWhatIsOwed
CHECK_DEADLOCK FALSE
