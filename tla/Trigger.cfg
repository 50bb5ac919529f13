SPECIFICATION FairSpec
CONSTANTS
    e1 = e1
    e2 = e2
    e3 = e3
    Events = {e1, e2}
    Runners = {r1, r2}
    NoRunner = NoRunner
    Grouped <- MCGrouped
    GroupOf <- MCGroupOf
    MaxFailures = 1
INVARIANTS TypeOK ReactedOnce SingleClaim NothingStranded
PROPERTIES LockGivenUp EveryEventEnds ImplementsLifecycle
CHECK_DEADLOCK FALSE
