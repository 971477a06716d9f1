SPECIFICATION FairSpec
CONSTANTS
    Orders = {o1, o2}
    Requests = {r1}
    Scheduler = scheduler
    NoSession = none
    MaxCycle = 1
    CancelCycles = 1
    UnknownAttempts = 1
PROPERTIES
    DraftsResolve
    DeliveriesConclude
