SPECIFICATION Spec
CONSTANTS
    Orders = {o1, o2}
    Requests = {r1, r2}
    Scheduler = scheduler
    NoSession = none
    MaxCycle = 1
    CancelCycles = 1
    UnknownAttempts = 2
SYMMETRY Interchangeable
INVARIANTS
    OneConfirmedPerCycle
    StockMatchesOrder
PROPERTIES
    AutoConfirmOnlyWhileOn
    BlockedNeedsUser
