SPECIFICATION Spec
CONSTANTS
    Orders = {o1, o2}
    Requests = {r1}
    Scheduler = scheduler
    NoSession = none
    MaxCycle = 2
    CancelCycles = 1
    UnknownAttempts = 1
SYMMETRY Interchangeable
PROPERTIES
    ConfirmedNeverExpires
